---- MODULE Spec2Model ----
(***************************************************************************)
(* Model of the per-team WebAssembly ship-control runtime of oort3         *)
(* (shared/simulator/src/vm/mod.rs): TeamController, ShipController,       *)
(* LocalSystemState and the marshalling of SystemState between the host    *)
(* and the guest module.                                                   *)
(***************************************************************************)
EXTENDS Integers, Sequences, FiniteSets, Bags, TLC

(***************************************************************************)
(* f64 values.  A finite double x is the record Fin(n) with n = x * Den    *)
(* (fixed point, so that 0.5 is a value); NaN and the two infinities are   *)
(* values of their own.                                                    *)
(***************************************************************************)
Den == 2

Fin(n) == [k |-> "fin", v |-> n]
NaN == [k |-> "nan", v |-> 0]
PosInf == [k |-> "inf", v |-> 1]
NegInf == [k |-> "inf", v |-> -1]
Zero == Fin(0)
FromInt(n) == Fin(n * Den)
One == FromInt(1)
HalfVal == Fin(1)

is_nan(x) == x.k = "nan"
is_infinite(x) == x.k = "inf"
is_finite(x) == x.k = "fin"

\* x > 0.0 (false for NaN)
GtZero(x) == \/ (x.k = "fin" /\ x.v > 0)
             \/ (x.k = "inf" /\ x.v > 0)

\* x != 0.0 (true for NaN)
NeZero(x) == ~(x.k = "fin" /\ x.v = 0)

\* `x as u32` / `x as usize` of Rust on a value read through get (never NaN
\* or infinite): truncation toward zero, negative values to 0.  The values
\* of the model stay far below 2^32, where the cast saturates.
AsU32(x) ==
    IF x.k # "fin" \/ x.v < 0 THEN 0
    ELSE x.v \div Den

GAS_PER_TICK == 1000000

(***************************************************************************)
(* SystemState indices (the slots this file reads or writes).              *)
(***************************************************************************)
CommandSlots == {"AccelerateX", "AccelerateY", "Torque",
                 "Fire0", "Fire1", "Fire2", "Fire3", "Explode"}

AimSlots == {"Aim0", "Aim1", "Aim2", "Aim3"}

RadarSlots == {"RadarHeading", "RadarWidth", "RadarMinDistance", "RadarMaxDistance"}

ContactSlots == {"RadarContactFound", "RadarContactPositionX", "RadarContactPositionY",
                 "RadarContactVelocityX", "RadarContactVelocityY", "RadarContactClass"}

KinematicSlots == {"Class", "PositionX", "PositionY", "VelocityX", "VelocityY",
                   "Heading", "AngularVelocity",
                   "MaxForwardAcceleration", "MaxBackwardAcceleration",
                   "MaxLateralAcceleration", "MaxAngularAcceleration",
                   "CurrentTick", "Seed"}

DebugSlots == {"DebugTextPointer", "DebugTextLength",
               "DebugLinesPointer", "DebugLinesLength",
               "DrawnTextPointer", "DrawnTextLength"}

RadioSlots == {"Radio0Channel", "Radio0Send", "Radio0Receive",
               "Radio0Data0", "Radio0Data1", "Radio0Data2", "Radio0Data3",
               "Radio1Channel", "Radio1Send", "Radio1Receive",
               "Radio1Data0", "Radio1Data1", "Radio1Data2", "Radio1Data3"}

Slots == CommandSlots \cup AimSlots \cup RadarSlots \cup ContactSlots
         \cup KinematicSlots \cup DebugSlots \cup RadioSlots
         \cup {"ActivateAbility"}

\* oort_api::prelude::radio_internal::radio_indices(i), i counted from 0
radio_indices(i) ==
    IF i = 0
    THEN [channel |-> "Radio0Channel", send |-> "Radio0Send",
          receive |-> "Radio0Receive",
          data |-> <<"Radio0Data0", "Radio0Data1", "Radio0Data2", "Radio0Data3">>]
    ELSE [channel |-> "Radio1Channel", send |-> "Radio1Send",
          receive |-> "Radio1Receive",
          data |-> <<"Radio1Data0", "Radio1Data1", "Radio1Data2", "Radio1Data3">>]

\* the (aim, fire) pairs of apply_system_state, group k counted from 0
AimOf(k) == <<"Aim0", "Aim1", "Aim2", "Aim3">>[k + 1]
FireOf(k) == <<"Fire0", "Fire1", "Fire2", "Fire3">>[k + 1]

(***************************************************************************)
(* LocalSystemState                                                        *)
(***************************************************************************)
LocalSystemState_new == [s \in Slots |-> Zero]

\* mutant: the slot is read as stored
get_Unsanitized(state, index) == state[index]

get(state, index) ==
    LET v == state[index]
    IN  IF is_nan(v) \/ is_infinite(v) THEN Zero ELSE v

set(state, index, value) == [state EXCEPT ![index] = value]

\* a run of state.set calls on distinct indices
SetMany(state, upd) ==
    [s \in Slots |-> IF s \in DOMAIN upd THEN upd[s] ELSE state[s]]

(***************************************************************************)
(* Handles and the simulation.  A ShipHandle is an (index, generation)     *)
(* pair.  The simulation is the collaborator behind the Simulation         *)
(* interface: it keeps the data of every ship and receives the mutator     *)
(* calls, which the model records as events.                               *)
(***************************************************************************)
MaxIndex == 3
MaxGeneration == 0

Handle(i, g) == [index |-> i, generation |-> g]
Handles == {Handle(i, g) : i \in 1..MaxIndex, g \in 0..MaxGeneration}

\* handle.0.into_raw_parts()
into_raw_parts(handle) == <<handle.index, handle.generation>>

\* the key of sort_by_key(|x| x.0): index first, then generation
KeyLess(a, b) ==
    \/ a.index < b.index
    \/ (a.index = b.index /\ a.generation < b.generation)

Ev(op, h, k, args) == [op |-> op, h |-> h, k |-> k, args |-> args]

NoRadar == [present |-> FALSE, heading |-> Zero, width |-> Zero,
            min_distance |-> Zero, max_distance |-> Zero]
NoTarget == [present |-> FALSE, position |-> <<Zero, Zero>>, velocity |-> <<Zero, Zero>>]
NoMsg == [present |-> FALSE, msg |-> <<Zero, Zero, Zero, Zero>>]
NoContact == [present |-> FALSE, position |-> <<Zero, Zero>>,
              velocity |-> <<Zero, Zero>>, class |-> "Fighter"]
SomeContact == [present |-> TRUE, position |-> <<FromInt(3), FromInt(-1)>>,
                velocity |-> <<Zero, HalfVal>>, class |-> "Missile"]

\* a fighter: radar, one radio on channel 7
FighterData ==
    [class |-> "Fighter",
     position |-> <<FromInt(1), FromInt(2)>>,
     velocity |-> <<HalfVal, Zero>>,
     heading |-> HalfVal,
     angular_velocity |-> Zero,
     radar |-> [present |-> TRUE, heading |-> FromInt(1), width |-> HalfVal,
                min_distance |-> Zero, max_distance |-> FromInt(4)],
     target |-> NoTarget,
     radios |-> << [channel |-> 7, received |-> NoMsg] >>,
     max_forward_acceleration |-> FromInt(3),
     max_backward_acceleration |-> FromInt(2),
     max_lateral_acceleration |-> FromInt(2),
     max_angular_acceleration |-> FromInt(1),
     exploded |-> FALSE]

\* a guided missile: no radar, a tracked target, no radio
MissileData ==
    [class |-> "Missile",
     position |-> <<FromInt(-2), Zero>>,
     velocity |-> <<FromInt(1), FromInt(1)>>,
     heading |-> Zero,
     angular_velocity |-> HalfVal,
     radar |-> NoRadar,
     target |-> [present |-> TRUE, position |-> <<FromInt(2), FromInt(2)>>,
                 velocity |-> <<Zero, FromInt(-1)>>],
     radios |-> << >>,
     max_forward_acceleration |-> FromInt(4),
     max_backward_acceleration |-> Zero,
     max_lateral_acceleration |-> FromInt(1),
     max_angular_acceleration |-> FromInt(2),
     exploded |-> FALSE]

\* a cruiser: radar, two radios, a message waiting on the first
CruiserData ==
    [class |-> "Cruiser",
     position |-> <<Zero, FromInt(-3)>>,
     velocity |-> <<Zero, Zero>>,
     heading |-> FromInt(1),
     angular_velocity |-> Zero,
     radar |-> [present |-> TRUE, heading |-> Zero, width |-> FromInt(1),
                min_distance |-> HalfVal, max_distance |-> FromInt(5)],
     target |-> NoTarget,
     radios |-> << [channel |-> 2,
                    received |-> [present |-> TRUE,
                                  msg |-> <<FromInt(1), FromInt(-1), HalfVal, Zero>>]],
                   [channel |-> 9, received |-> NoMsg] >>,
     max_forward_acceleration |-> FromInt(1),
     max_backward_acceleration |-> FromInt(1),
     max_lateral_acceleration |-> HalfVal,
     max_angular_acceleration |-> HalfVal,
     exploded |-> FALSE]

ShipKinds == {FighterData, MissileData}

\* the kinds of the ships of a team that uses its radios
RadioShipKinds == ShipKinds \cup {CruiserData}

\* sim.ship_mut(handle).explode()
SimExplode(simv, handle) ==
    [simv EXCEPT !.ships[handle].exploded = TRUE]

(***************************************************************************)
(* Translation tables                                                      *)
(***************************************************************************)
translate_class(class) ==
    CASE class = "Fighter" -> "Fighter"
      [] class = "Frigate" -> "Frigate"
      [] class = "Cruiser" -> "Cruiser"
      [] class = "Asteroid" -> "Asteroid"
      [] class = "Target" -> "Target"
      [] class = "Missile" -> "Missile"
      [] class = "Torpedo" -> "Torpedo"
      [] class = "Planet" -> "Unknown"

\* `Class as u32`
ClassCode(c) ==
    CASE c = "Fighter" -> 0
      [] c = "Frigate" -> 1
      [] c = "Cruiser" -> 2
      [] c = "Asteroid" -> 3
      [] c = "Target" -> 4
      [] c = "Missile" -> 5
      [] c = "Torpedo" -> 6
      [] c = "Unknown" -> 7

\* `Ability as u32`
AbilityCode(a) ==
    CASE a = "None" -> 0
      [] a = "Boost" -> 1
      [] a = "ShapedCharge" -> 2
      [] a = "Decoy" -> 3
      [] a = "Shield" -> 4

NoAbility == [some |-> FALSE, ability |-> "None"]
SomeAbility(a) == [some |-> TRUE, ability |-> a]

translate_ability(x) ==
    LET v == AsU32(x)
    IN  IF v = AbilityCode("None") THEN SomeAbility("None")
        ELSE IF v = AbilityCode("Boost") THEN SomeAbility("Boost")
        ELSE IF v = AbilityCode("ShapedCharge") THEN SomeAbility("ShapedCharge")
        ELSE IF v = AbilityCode("Decoy") THEN SomeAbility("Decoy")
        ELSE IF v = AbilityCode("Shield") THEN SomeAbility("Shield")
        ELSE NoAbility

\* A 64-bit word is the sequence of its four 16-bit limbs, the least
\* significant first; as an i64 it is negative iff its last limb is 2^15
\* or more
Limb == 2^16

RECURSIVE BitXor(_, _)
BitXor(a, b) ==
    IF a = 0 THEN b
    ELSE IF b = 0 THEN a
    ELSE ((a + b) % 2) + 2 * BitXor(a \div 2, b \div 2)

\* the xor of two hexadecimal digits, and of two limbs digit by digit
DigitXor == [a \in 0..15 |-> [b \in 0..15 |-> BitXor(a, b)]]

LimbXor(a, b) ==
    DigitXor[a % 16][b % 16]
    + 16 * DigitXor[(a \div 16) % 16][(b \div 16) % 16]
    + 256 * DigitXor[(a \div 256) % 16][(b \div 256) % 16]
    + 4096 * DigitXor[a \div 4096][b \div 4096]

xor(x0, y0) ==
    CHOOSE r \in
        {<<LimbXor(x[1], y[1]), LimbXor(x[2], y[2]),
           LimbXor(x[3], y[3]), LimbXor(x[4], y[4])>> : x \in {x0}, y \in {y0}} : TRUE

wrapping_add(x, y) ==
    LET s1 == x[1] + y[1]
        s2 == x[2] + y[2] + (s1 \div Limb)
        s3 == x[3] + y[3] + (s2 \div Limb)
        s4 == x[4] + y[4] + (s3 \div Limb)
    IN  <<s1 % Limb, s2 % Limb, s3 % Limb, s4 % Limb>>

rotate_left(x, n) ==
    LET q == n \div 16
        r == n % 16
        from(i) == x[((i - 1 - q + 8) % 4) + 1]
        limb(i) == ((from(i) * 2^r) % Limb) + (from(i - 1) \div 2^(16 - r))
    IN  <<limb(1), limb(2), limb(3), limb(4)>>

\* core::hash::sip: one round of SipHash on the state <<v0, v1, v2, v3>>,
\* in its four steps
sip_round_1(v) == <<wrapping_add(v[1], v[2]), v[2], wrapping_add(v[3], v[4]), v[4]>>
sip_round_2(v) ==
    <<rotate_left(v[1], 32), xor(rotate_left(v[2], 13), v[1]),
      v[3], xor(rotate_left(v[4], 16), v[3])>>
sip_round_3(v) == <<wrapping_add(v[1], v[4]), v[2], wrapping_add(v[3], v[2]), v[4]>>
sip_round_4(v) ==
    <<v[1], xor(rotate_left(v[2], 17), v[3]),
      rotate_left(v[3], 32), xor(rotate_left(v[4], 21), v[1])>>

sip_round(state) ==
    CHOOSE w \in
        {sip_round_4(d) : d \in
            {sip_round_3(c) : c \in
                {sip_round_2(b) : b \in
                    {sip_round_1(a) : a \in {state}}}}} : TRUE

\* a block of eight bytes is absorbed: one round, as in SipHash-1-3
sip_compress(state, m) ==
    CHOOSE r \in
        {<<xor(w[1], m), w[2], w[3], w[4]>> :
            w \in {sip_round(<<v[1], v[2], v[3], xor(v[4], m)>>) : v \in {state}}} : TRUE

\* DefaultHasher::new(): the keys are 0, the state is the four constants
\* "somepseu", "dorandom", "lygenera", "tedbytes"
DefaultHasher_new ==
    << <<25973, 28787, 28005, 29551>>, <<28525, 28260, 29281, 25711>>,
       <<29281, 28261, 26469, 27769>>, <<25971, 31092, 25698, 29797>> >>

\* Hasher::finish: v2 ^= 0xff, three rounds, the xor of the four words
sip_finish(state) ==
    CHOOSE r \in
        {xor(xor(w[1], w[2]), xor(w[3], w[4])) :
            w \in {sip_round(sip_round(sip_round(
                      <<v[1], v[2], xor(v[3], <<255, 0, 0, 0>>), v[4]>>))) :
                   v \in {state}}} : TRUE

\* make_seed: the three u32 are written little-endian, twelve bytes: the
\* block of sim_seed and the index, then the last block of the generation
\* with the length in its top byte; finish() as i64 keeps the bits
make_seed(sim_seed, handle) ==
    LET p == into_raw_parts(handle)
        block == <<sim_seed % Limb, sim_seed \div Limb, p[1] % Limb, p[1] \div Limb>>
        last == <<p[2] % Limb, p[2] \div Limb, 0, 12 * 256>>
    IN  sip_finish(sip_compress(sip_compress(DefaultHasher_new, block), last))

SeedMask == 16777215

\* mutant: one bit less is kept
LowBits_Narrow(n) == n[1] + Limb * (n[2] % ((SeedMask + 1) \div (2 * Limb)))

\* `& 0xffffff` of an i64: the low 24 bits of the word
LowBits(n) == n[1] + Limb * (n[2] % ((SeedMask + 1) \div Limb))

(***************************************************************************)
(* Outbound state generation.  contact is the result of radar.scan().      *)
(***************************************************************************)
\* mutant: a tracked target is reported as a radar contact
RadarOut_TargetFound(data, contact) ==
    IF data.radar.present
    THEN ("RadarHeading" :> data.radar.heading)
         @@ ("RadarWidth" :> data.radar.width)
         @@ ("RadarMinDistance" :> data.radar.min_distance)
         @@ ("RadarMaxDistance" :> data.radar.max_distance)
         @@ (IF contact.present
             THEN ("RadarContactFound" :> FromInt(1))
                  @@ ("RadarContactPositionX" :> contact.position[1])
                  @@ ("RadarContactPositionY" :> contact.position[2])
                  @@ ("RadarContactVelocityX" :> contact.velocity[1])
                  @@ ("RadarContactVelocityY" :> contact.velocity[2])
                  @@ ("RadarContactClass" :>
                         FromInt(ClassCode(translate_class(contact.class))))
             ELSE ("RadarContactFound" :> Zero))
    ELSE IF data.target.present
    THEN ("RadarContactFound" :> FromInt(1))
         @@ ("RadarContactPositionX" :> data.target.position[1])
         @@ ("RadarContactPositionY" :> data.target.position[2])
         @@ ("RadarContactVelocityX" :> data.target.velocity[1])
         @@ ("RadarContactVelocityY" :> data.target.velocity[2])
    ELSE << >>

RadarOut(data, contact) ==
    IF data.radar.present
    THEN ("RadarHeading" :> data.radar.heading)
         @@ ("RadarWidth" :> data.radar.width)
         @@ ("RadarMinDistance" :> data.radar.min_distance)
         @@ ("RadarMaxDistance" :> data.radar.max_distance)
         @@ (IF contact.present
             THEN ("RadarContactFound" :> FromInt(1))
                  @@ ("RadarContactPositionX" :> contact.position[1])
                  @@ ("RadarContactPositionY" :> contact.position[2])
                  @@ ("RadarContactVelocityX" :> contact.velocity[1])
                  @@ ("RadarContactVelocityY" :> contact.velocity[2])
                  @@ ("RadarContactClass" :>
                         FromInt(ClassCode(translate_class(contact.class))))
             ELSE ("RadarContactFound" :> Zero))
    ELSE IF data.target.present
    THEN ("RadarContactPositionX" :> data.target.position[1])
         @@ ("RadarContactPositionY" :> data.target.position[2])
         @@ ("RadarContactVelocityX" :> data.target.velocity[1])
         @@ ("RadarContactVelocityY" :> data.target.velocity[2])
    ELSE << >>

\* mutant: the channel slot is not written
RadioOut_NoChannel(radio, i) ==
    LET idxs == radio_indices(i)
    IN  (IF radio.received.present
         THEN (idxs.receive :> FromInt(1))
              @@ (idxs.data[1] :> radio.received.msg[1])
              @@ (idxs.data[2] :> radio.received.msg[2])
              @@ (idxs.data[3] :> radio.received.msg[3])
              @@ (idxs.data[4] :> radio.received.msg[4])
         ELSE (idxs.receive :> Zero))
        @@ (idxs.send :> Zero)

\* mutant: the send slot keeps what the last tick left in it
RadioOut_KeepsSend(radio, i) ==
    LET idxs == radio_indices(i)
    IN  (idxs.channel :> FromInt(radio.channel))
        @@ (IF radio.received.present
            THEN (idxs.receive :> FromInt(1))
                 @@ (idxs.data[1] :> radio.received.msg[1])
                 @@ (idxs.data[2] :> radio.received.msg[2])
                 @@ (idxs.data[3] :> radio.received.msg[3])
                 @@ (idxs.data[4] :> radio.received.msg[4])
            ELSE (idxs.receive :> Zero))

RadioOut(radio, i) ==
    LET idxs == radio_indices(i)
    IN  (idxs.channel :> FromInt(radio.channel))
        @@ (IF radio.received.present
            THEN (idxs.receive :> FromInt(1))
                 @@ (idxs.data[1] :> radio.received.msg[1])
                 @@ (idxs.data[2] :> radio.received.msg[2])
                 @@ (idxs.data[3] :> radio.received.msg[3])
                 @@ (idxs.data[4] :> radio.received.msg[4])
            ELSE (idxs.receive :> Zero))
        @@ (idxs.send :> Zero)

RECURSIVE RadiosOut(_, _)
RadiosOut(radios, i) ==
    IF i >= Len(radios) THEN << >>
    ELSE RadioOut(radios[i + 1], i) @@ RadiosOut(radios, i + 1)

generate_system_state(simv, handle, state, contact) ==
    LET data == simv.ships[handle]
    IN  SetMany(state,
          ("Class" :> FromInt(ClassCode(translate_class(data.class))))
          @@ ("PositionX" :> data.position[1])
          @@ ("PositionY" :> data.position[2])
          @@ ("VelocityX" :> data.velocity[1])
          @@ ("VelocityY" :> data.velocity[2])
          @@ ("Heading" :> data.heading)
          @@ ("AngularVelocity" :> data.angular_velocity)
          @@ RadarOut(data, contact)
          @@ ("MaxForwardAcceleration" :> data.max_forward_acceleration)
          @@ ("MaxBackwardAcceleration" :> data.max_backward_acceleration)
          @@ ("MaxLateralAcceleration" :> data.max_lateral_acceleration)
          @@ ("MaxAngularAcceleration" :> data.max_angular_acceleration)
          @@ RadiosOut(data.radios, 0)
          @@ ("CurrentTick" :> FromInt(simv.tick)))

(***************************************************************************)
(* Inbound state application.  Each piece takes and returns the record     *)
(* [sim, state, ev]: the simulation, the local state and the mutator calls *)
(* the simulation has received, in order.                                  *)
(***************************************************************************)
ApplyAccelerate(r, handle) ==
    [r EXCEPT
       !.ev = Append(@, Ev("accelerate", handle, 0,
                           <<get(r.state, "AccelerateX"), get(r.state, "AccelerateY")>>)),
       !.state = set(set(@, "AccelerateX", Zero), "AccelerateY", Zero)]

\* mutant: the torque is applied and its slot is left as it is
ApplyTorque_KeepsSlot(r, handle) ==
    [r EXCEPT !.ev = Append(@, Ev("torque", handle, 0, <<get(r.state, "Torque")>>))]

ApplyTorque(r, handle) ==
    [r EXCEPT
       !.ev = Append(@, Ev("torque", handle, 0, <<get(r.state, "Torque")>>)),
       !.state = set(@, "Torque", Zero)]

\* mutant: the group is fired and its Fire slot is left as it is
ApplyFire_KeepsSlot(r, handle, i) ==
    IF GtZero(get(r.state, FireOf(i)))
    THEN [r EXCEPT
            !.ev = @ \o << Ev("aim", handle, i, <<get(r.state, AimOf(i))>>),
                           Ev("fire", handle, i, << >>) >>]
    ELSE r

ApplyFire(r, handle, i) ==
    IF GtZero(get(r.state, FireOf(i)))
    THEN [r EXCEPT
            !.ev = @ \o << Ev("aim", handle, i, <<get(r.state, AimOf(i))>>),
                           Ev("fire", handle, i, << >>) >>,
            !.state = set(@, FireOf(i), Zero)]
    ELSE r

\* mutant: the weapon groups are taken from the last to the first
RECURSIVE ApplyWeapons_Descending(_, _, _)
ApplyWeapons_Descending(r, handle, i) ==
    IF i > 3 THEN r
    ELSE ApplyFire(ApplyWeapons_Descending(r, handle, i + 1), handle, i)

RECURSIVE ApplyWeapons(_, _, _)
ApplyWeapons(r, handle, i) ==
    IF i > 3 THEN r
    ELSE ApplyWeapons(ApplyFire(r, handle, i), handle, i + 1)

ApplyRadar(r, handle) ==
    IF r.sim.ships[handle].radar.present
    THEN [r EXCEPT
            !.sim.ships[handle].radar =
                [present |-> TRUE,
                 heading |-> get(r.state, "RadarHeading"),
                 width |-> get(r.state, "RadarWidth"),
                 min_distance |-> get(r.state, "RadarMinDistance"),
                 max_distance |-> get(r.state, "RadarMaxDistance")],
            !.ev = @ \o << Ev("set_heading", handle, 0, <<get(r.state, "RadarHeading")>>),
                           Ev("set_width", handle, 0, <<get(r.state, "RadarWidth")>>),
                           Ev("set_min_distance", handle, 0,
                              <<get(r.state, "RadarMinDistance")>>),
                           Ev("set_max_distance", handle, 0,
                              <<get(r.state, "RadarMaxDistance")>>) >>]
    ELSE r

\* mutant: Ability::None is activated like the others
ApplyAbility_ActivatesNone(r, handle) ==
    LET ability == translate_ability(get(r.state, "ActivateAbility"))
    IN  IF ability.some
        THEN [r EXCEPT !.ev = Append(@, Ev("activate_ability", handle,
                                           AbilityCode(ability.ability), << >>))]
        ELSE r

\* mutant: the slot is reset once the ability is activated
ApplyAbility_ClearsSlot(r, handle) ==
    LET ability == translate_ability(get(r.state, "ActivateAbility"))
    IN  IF ability.some /\ ability.ability # "None"
        THEN [r EXCEPT !.ev = Append(@, Ev("activate_ability", handle,
                                           AbilityCode(ability.ability), << >>)),
                       !.state = set(@, "ActivateAbility", Zero)]
        ELSE r

ApplyAbility(r, handle) ==
    LET ability == translate_ability(get(r.state, "ActivateAbility"))
    IN  IF ability.some /\ ability.ability # "None"
        THEN [r EXCEPT !.ev = Append(@, Ev("activate_ability", handle,
                                           AbilityCode(ability.ability), << >>))]
        ELSE r

ApplyExplode(r, handle) ==
    IF GtZero(get(r.state, "Explode"))
    THEN [r EXCEPT
            !.sim = SimExplode(@, handle),
            !.ev = Append(@, Ev("explode", handle, 0, << >>)),
            !.state = set(@, "Explode", Zero)]
    ELSE r

ApplyRadio(r, handle, i) ==
    LET idxs == radio_indices(i)
        channel == AsU32(get(r.state, idxs.channel))
        r1 == [r EXCEPT
                 !.sim.ships[handle].radios[i + 1].channel = channel,
                 !.ev = Append(@, Ev("set_channel", handle, i, <<FromInt(channel)>>))]
    IN  IF NeZero(get(r.state, idxs.send))
        THEN [r1 EXCEPT
                !.ev = Append(@, Ev("set_sent", handle, i,
                                    <<get(r.state, idxs.data[1]), get(r.state, idxs.data[2]),
                                      get(r.state, idxs.data[3]), get(r.state, idxs.data[4])>>))]
        ELSE r1

RECURSIVE ApplyRadios(_, _, _)
ApplyRadios(r, handle, i) ==
    IF i >= Len(r.sim.ships[handle].radios) THEN r
    ELSE ApplyRadios(ApplyRadio(r, handle, i), handle, i + 1)

apply_system_state(simv, handle, state) ==
    LET r0 == [sim |-> simv, state |-> state, ev |-> << >>]
        r1 == ApplyAccelerate(r0, handle)
        r2 == ApplyTorque(r1, handle)
        r3 == ApplyWeapons(r2, handle, 0)
        r4 == ApplyRadar(r3, handle)
        r5 == ApplyAbility(r4, handle)
        r6 == ApplyExplode(r5, handle)
    IN  ApplyRadios(r6, handle, 0)

(***************************************************************************)
(* Guest linear memory.  mem.state is the f64 array at SYSTEM_STATE.  The  *)
(* rest of the memory is what the debug pointers read: utf8 tells whether  *)
(* its bytes decode as UTF-8, badLine / badText / longText give the        *)
(* position (from 1, 0 for none) of a Line with a NaN coordinate, of a     *)
(* Text with an infinite coordinate and of a Text whose length exceeds its *)
(* buffer, in the batch a debug pointer reads.                             *)
(***************************************************************************)
MemBytes == 65536
LineBytes == 40
TextBytes == 32
TextCap == 11

ZeroedHeap == [utf8 |-> TRUE, badLine |-> 0, badText |-> 0, longText |-> 0]

LineAt(memv, j) ==
    [x0 |-> Zero, y0 |-> FromInt(j),
     x1 |-> IF j = memv.heap.badLine THEN NaN ELSE One,
     y1 |-> Zero, color |-> 0]

TextAt(memv, j) ==
    [x |-> IF j = memv.heap.badText THEN PosInf ELSE Zero,
     y |-> FromInt(j), color |-> 0,
     length |-> IF j = memv.heap.longText THEN TextCap + 1 ELSE 1,
     cap |-> TextCap]

None == [some |-> FALSE, val |-> << >>]
Some(v) == [some |-> TRUE, val |-> v]

\* mutant: only the command slots reach the guest memory
write_system_state_Partial(state, memv) ==
    [memv EXCEPT !.state = [s \in DOMAIN state |->
                              IF s \in CommandSlots THEN state[s] ELSE memv.state[s]]]

\* write_system_state / read_system_state: the whole array, SystemState::Size
\* doubles, is copied to and from the memory at SYSTEM_STATE
write_system_state(state, memv) == [memv EXCEPT !.state = state]
read_system_state(memv) == memv.state

\* ptr.slice(&memory_view, length): the bounds check of the memory view
SliceOk(offset, length) == offset + length <= MemBytes

\* mutant: bytes that are not UTF-8 are replaced instead of rejected
read_string_Lossy(memv, offset, length) ==
    IF ~SliceOk(offset, length) THEN None
    ELSE Some(<<length>>)

\* heap.utf8 says whether the bytes of the heap are UTF-8; the string of no
\* bytes is UTF-8 whatever the heap holds
read_string(memv, offset, length) ==
    IF ~SliceOk(offset, length) THEN None
    ELSE IF length > 0 /\ ~memv.heap.utf8 THEN None
    ELSE Some(<<length>>)

\* length.saturating_mul(size_of::<T>()); the lengths of the model stay below
\* the point of saturation
saturating_mul(a, b) == a * b

read_vec_Line(memv, offset, length) ==
    LET byte_length == saturating_mul(length, LineBytes)
    IN  IF ~SliceOk(offset, byte_length) THEN None
        ELSE Some([j \in 1..length |-> LineAt(memv, j)])

read_vec_Text(memv, offset, length) ==
    LET byte_length == saturating_mul(length, TextBytes)
    IN  IF ~SliceOk(offset, byte_length) THEN None
        ELSE Some([j \in 1..length |-> TextAt(memv, j)])

validate_floats(vs) == \A i \in 1..Len(vs) : is_finite(vs[i])

\* mutant: only the first line of the batch is looked at
validate_lines_First(lines) ==
    \A i \in 1..Len(lines) :
        i = 1 => validate_floats(<<lines[i].x0, lines[i].y0, lines[i].x1, lines[i].y1>>)

validate_lines(lines) ==
    \A i \in 1..Len(lines) :
        validate_floats(<<lines[i].x0, lines[i].y0, lines[i].x1, lines[i].y1>>)

\* mutant: the length field is not compared with the buffer
validate_texts_NoLength(texts) ==
    \A i \in 1..Len(texts) : validate_floats(<<texts[i].x, texts[i].y>>)

validate_texts(texts) ==
    \A i \in 1..Len(texts) :
        /\ validate_floats(<<texts[i].x, texts[i].y>>)
        /\ texts[i].length <= texts[i].cap

MaxDebugBatch == 128

\* the three debug blocks at the end of ShipController::tick
DebugText(handle, state, memv) ==
    IF GtZero(get(state, "DebugTextLength"))
    THEN LET offset == AsU32(get(state, "DebugTextPointer"))
             length == AsU32(get(state, "DebugTextLength"))
             s == read_string(memv, offset, length)
         IN  IF s.some THEN << Ev("emit_debug_text", handle, length, << >>) >>
             ELSE << >>
    ELSE << >>

DebugLines(handle, state, memv) ==
    IF GtZero(get(state, "DebugLinesLength"))
    THEN LET offset == AsU32(get(state, "DebugLinesPointer"))
             length == AsU32(get(state, "DebugLinesLength"))
             lines == read_vec_Line(memv, offset, length)
         IN  IF length <= MaxDebugBatch /\ lines.some /\ validate_lines(lines.val)
             THEN << Ev("emit_debug_lines", handle, Len(lines.val), << >>) >>
             ELSE << >>
    ELSE << >>

DrawnText(handle, state, memv) ==
    IF GtZero(get(state, "DrawnTextLength"))
    THEN LET offset == AsU32(get(state, "DrawnTextPointer"))
             length == AsU32(get(state, "DrawnTextLength"))
             texts == read_vec_Text(memv, offset, length)
         IN  IF length <= MaxDebugBatch /\ texts.some /\ validate_texts(texts.val)
             THEN << Ev("emit_drawn_text", handle, Len(texts.val), << >>) >>
             ELSE << >>
    ELSE << >>

ProcessDebug(handle, state, memv) ==
    DebugText(handle, state, memv) \o DebugLines(handle, state, memv)
        \o DrawnText(handle, state, memv)

translate_runtime_error(trapped) ==
    IF trapped THEN [ok |-> FALSE, msg |-> "Ship runtime error"]
    ELSE [ok |-> TRUE, msg |-> "Ok"]

(***************************************************************************)
(* Code and the creation of the VM.  Module bytes are described by what    *)
(* the limiter and the engine find in them: whether the limiter accepts    *)
(* them, whether they compile (or deserialize), whether the module         *)
(* instantiates, what it exports, the type of its SYSTEM_STATE global,     *)
(* whether the state array that global points at lies in its linear        *)
(* memory, and how many times the limiter has rewritten them.              *)
(***************************************************************************)
RequiredExports == {"memory", "SYSTEM_STATE", "export_tick_ship",
                    "export_delete_ship", "reset_gas"}

\* what the compiler emits; the limiter adds reset_gas
CompilerExports == RequiredExports \ {"reset_gas"}

GoodBytes ==
    [accepted |-> TRUE, valid |-> TRUE, links |-> TRUE, exports |-> CompilerExports,
     state_type |-> "i32", state_in_memory |-> TRUE, metered |-> 0]

NoBytes ==
    [accepted |-> FALSE, valid |-> FALSE, links |-> FALSE, exports |-> {},
     state_type |-> "i32", state_in_memory |-> FALSE, metered |-> 0]

RawBytes ==
    [accepted : BOOLEAN, valid : BOOLEAN, links : BOOLEAN, exports : SUBSET CompilerExports,
     state_type : {"i32", "i64"}, state_in_memory : BOOLEAN, metered : {0}]

CodeNone == [tag |-> "None", bytes |-> NoBytes, name |-> ""]
CodeSource == [tag |-> "Source", bytes |-> NoBytes, name |-> ""]
CodeWasm(bytes) == [tag |-> "Wasm", bytes |-> bytes, name |-> ""]
CodePrecompiled(bytes) == [tag |-> "Precompiled", bytes |-> bytes, name |-> ""]
CodeBuiltin(name) == [tag |-> "Builtin", bytes |-> NoBytes, name |-> name]

\* Result values: Ok(v), Err, and a panic of the host, with the calls made
\* on the limiter and the engine on the way
ROk(v, ev) == [status |-> "Ok", val |-> v, ev |-> ev]
RErr(v, ev) == [status |-> "Err", val |-> v, ev |-> ev]
RPanic(v, ev) == [status |-> "panic", val |-> v, ev |-> ev]

NoHandle == Handle(0, 0)
Step(op, bytes) == Ev(op, NoHandle, bytes.metered, << >>)

\* limiter::rewrite: rewritten bytes, with the gas accounting and the
\* reset_gas export, or an error
limiter_rewrite(bytes) ==
    IF bytes.accepted
    THEN ROk([bytes EXCEPT !.metered = @ + 1, !.exports = @ \cup {"reset_gas"}],
             << Step("limiter::rewrite", bytes) >>)
    ELSE RErr(bytes, << Step("limiter::rewrite", bytes) >>)

\* Module::new and Module::deserialize
Module_new(bytes) ==
    IF bytes.valid THEN ROk(bytes, << Step("Module::new", bytes) >>)
    ELSE RErr(bytes, << Step("Module::new", bytes) >>)

Module_deserialize(bytes) ==
    IF bytes.valid THEN ROk(bytes, << Step("Module::deserialize", bytes) >>)
    ELSE RErr(bytes, << Step("Module::deserialize", bytes) >>)

\* the RefCell around the store: borrow is the number of Ref guards alive,
\* or -1 while a RefMut is; views counts the memory views alive; failed
\* records a borrow the RefCell refused, overlapped a guest call made while
\* a Ref or a memory view was alive
IdleStore == [borrow |-> 0, views |-> 0, failed |-> FALSE, overlapped |-> FALSE]

NoVm == [status |-> "none", code |-> CodeNone, module |-> NoBytes, store |-> IdleStore]
WasmVm(module) == [status |-> "Ok", code |-> CodeNone, module |-> module, store |-> IdleStore]

\* one access to the RefCell or to a memory view
Access(cell, a) ==
    CASE a = "borrow" ->
            IF cell.borrow < 0 THEN [cell EXCEPT !.failed = TRUE]
            ELSE [cell EXCEPT !.borrow = @ + 1]
      [] a = "release" -> [cell EXCEPT !.borrow = @ - 1]
      [] a = "view" -> [cell EXCEPT !.views = @ + 1]
      [] a = "drop_view" -> [cell EXCEPT !.views = @ - 1]
      [] a = "borrow_mut" ->
            IF cell.borrow # 0 THEN [cell EXCEPT !.failed = TRUE]
            ELSE [cell EXCEPT !.borrow = -1, !.overlapped = @ \/ cell.views > 0]
      [] a = "release_mut" -> [cell EXCEPT !.borrow = 0]

RECURSIVE Accesses(_, _)
Accesses(cell, as) ==
    IF as = << >> THEN cell ELSE Accesses(Access(cell, Head(as)), Tail(as))

\* memory_view(): self.memory.view(self.store().deref()); the Ref is a
\* temporary of the call
memory_view == << "borrow", "view", "release" >>

\* mutant: the controller keeps the view it read with
ViewScope_Retained == memory_view

\* a function that takes a memory view in a local and returns
\* (read_system_state, write_system_state, read_string, read_vec)
ViewScope == memory_view \o << "drop_view" >>

\* function.call(self.vm.store_mut().deref_mut(), ..): the RefMut is a
\* temporary of the statement that makes the call
GuestCallBegin == << "borrow_mut" >>
GuestCallEnd == << "release_mut" >>
GuestCall == GuestCallBegin \o GuestCallEnd

\* mutant: the bytes handed in are compiled, the rewritten ones dropped
CompileWasm_Original(bytes) ==
    LET w == limiter_rewrite(bytes)
    IN  IF w.status # "Ok" THEN RErr(bytes, w.ev)
        ELSE LET m == Module_new(bytes)
             IN  [m EXCEPT !.ev = w.ev \o @]

\* the Code::Wasm arm of WasmVm::create: limiter::rewrite(wasm)?, then
\* Module::new(&store, wasm)? on the rewritten bytes
CompileWasm(bytes) ==
    LET w == limiter_rewrite(bytes)
    IN  IF w.status # "Ok" THEN RErr(bytes, w.ev)
        ELSE LET m == Module_new(w.val)
             IN  [m EXCEPT !.ev = w.ev \o @]

\* mutant: the other variants are refused with an error
OtherVariant_Err == RErr(NoVm, << >>)

\* the arm _ => unreachable!()
OtherVariant == RPanic(NoVm, << >>)

\* the lookups of the exports after instantiation; the SYSTEM_STATE global
\* is read with .i32().unwrap()
ResolveExports(module, ev) ==
    IF "memory" \notin module.exports THEN RErr(NoVm, ev)
    ELSE IF "SYSTEM_STATE" \notin module.exports THEN RErr(NoVm, ev)
    ELSE IF module.state_type # "i32" THEN RPanic(NoVm, ev)
    ELSE IF "export_tick_ship" \notin module.exports THEN RErr(NoVm, ev)
    ELSE IF "export_delete_ship" \notin module.exports THEN RErr(NoVm, ev)
    ELSE IF "reset_gas" \notin module.exports THEN RErr(NoVm, ev)
    ELSE ROk(WasmVm(module), ev)

WasmVm_create(code) ==
    LET m == CASE code.tag = "Wasm" -> CompileWasm(code.bytes)
               [] code.tag = "Precompiled" -> Module_deserialize(code.bytes)
               [] OTHER -> OtherVariant
    IN  IF m.status = "panic" THEN m
        ELSE IF m.status = "Err" THEN RErr(NoVm, m.ev)
        ELSE IF ~m.val.links THEN RErr(NoVm, m.ev \o << Step("Instance::new", m.val) >>)
        ELSE ResolveExports(m.val, m.ev \o << Step("Instance::new", m.val) >>)

\* Ok(Box::new(TeamController { vm: WasmVm::create(code)?, ships: HashMap::new() }))
TeamController_create(code) == WasmVm_create(code)

\* precompile: the bytes are rewritten by the limiter, compiled and
\* serialized
precompile(bytes) ==
    LET m == CompileWasm(bytes)
    IN  IF m.status # "Ok" THEN RErr(CodeNone, m.ev)
        ELSE ROk(CodePrecompiled(m.val), m.ev \o << Step("Module::serialize", m.val) >>)

\* builtin::load_compiled: the pre-shipped programs by name
Builtins ==
    ("reference" :> CodeWasm(GoodBytes)) @@ ("precompiled" :> precompile(GoodBytes).val)

BuiltinNames == {"reference", "precompiled", "missing"}

load_compiled(name) ==
    IF name \in DOMAIN Builtins THEN ROk(Builtins[name], << >>)
    ELSE RErr(CodeNone, << >>)

RECURSIVE new_team_controller(_)
new_team_controller(code) ==
    CASE code.tag = "Wasm" -> TeamController_create(code)
      [] code.tag = "Precompiled" -> TeamController_create(code)
      [] code.tag = "Builtin" ->
            LET c == load_compiled(code.name)
            IN  IF c.status = "Ok" THEN new_team_controller(c.val)
                ELSE RErr(NoVm, << >>)
      [] OTHER -> OtherVariant

\* the Code values a caller may hold before any precompile
Codes ==
    {CodeNone, CodeSource} \cup {CodeWasm(b) : b \in RawBytes}
        \cup {CodeBuiltin(n) : n \in BuiltinNames}

\* the controller of a team whose code is the reference program
ReferenceVm == new_team_controller(CodeWasm(GoodBytes)).val

(***************************************************************************)
(* The sanitizer of the compiler service.  A text is a sequence of         *)
(* characters, each a string of length 1.                                  *)
(***************************************************************************)
s_unsafe == <<"u", "n", "s", "a", "f", "e">>
s_extern == <<"e", "x", "t", "e", "r", "n">>
s_crate == <<"c", "r", "a", "t", "e">>
s_static == <<"s", "t", "a", "t", "i", "c">>
s_macro_rules == <<"m", "a", "c", "r", "o", "_", "r", "u", "l", "e", "s">>
s_include == <<"i", "n", "c", "l", "u", "d", "e">>
s_include_bytes == <<"i", "n", "c", "l", "u", "d", "e", "_", "b", "y", "t", "e", "s">>
s_include_str == <<"i", "n", "c", "l", "u", "d", "e", "_", "s", "t", "r">>
s_derive == <<"d", "e", "r", "i", "v", "e">>
s_repr == <<"r", "e", "p", "r">>
s_inline == <<"i", "n", "l", "i", "n", "e">>
s_test == <<"t", "e", "s", "t">>
s_must_use == <<"m", "u", "s", "t", "_", "u", "s", "e">>
s_default == <<"d", "e", "f", "a", "u", "l", "t">>
s_link == <<"l", "i", "n", "k">>
s_path == <<"p", "a", "t", "h">>
s_no_std == <<"n", "o", "_", "s", "t", "d">>
s_export_name == <<"e", "x", "p", "o", "r", "t", "_", "n", "a", "m", "e">>
s_foo == <<"f", "o", "o">>
s_cfg_test == <<"c", "f", "g", "(", "t", "e", "s", "t", ")">>
s_str == <<"_", "s", "t", "r">>
s_bytes == <<"_", "b", "y", "t", "e", "s">>
s_u32 == <<"(", "u", "3", "2", ")">>
s_eq_test == <<"=", "\"", "t", "e", "s", "t", "\"">>

\* the characters \w matches, of those a text of the model is made of
WordChars == {"a", "b", "c", "d", "e", "f", "g", "h", "i", "j", "k", "l", "m", "n", "o", "p", "q", "r", "s", "t", "u", "v", "w", "x", "y", "z",
              "0", "1", "2", "3", "4", "5", "6", "7", "8", "9", "_"}

\* t[i] exists and is a word character
WordAt(t, i) == i >= 1 /\ i <= Len(t) /\ t[i] \in WordChars

\* \b between t[i] and t[i + 1], the ends of the text counting as non-word
Boundary(t, i) == WordAt(t, i) # WordAt(t, i + 1)

\* the text has w at position i
StartsAt(t, i, w) ==
    /\ i >= 1
    /\ i + Len(w) - 1 <= Len(t)
    /\ SubSeq(t, i, i + Len(w) - 1) = w

\* the alternatives of RE, in the order of the pattern
Keywords == << s_unsafe, s_extern, s_crate >>
Macros == << s_macro_rules, s_include, s_include_bytes, s_include_str >>

\* mutant: the keywords are matched between spaces or the ends of the text
MatchKeyword_Spaced(t, p) ==
    LET ends(k) == p + Len(Keywords[k]) - 1
        hits == {k \in DOMAIN Keywords :
                    /\ p = 1 \/ (p > 1 /\ p - 1 <= Len(t) /\ t[p - 1] = " ")
                    /\ StartsAt(t, p, Keywords[k])
                    /\ ends(k) = Len(t) \/ (ends(k) < Len(t) /\ t[ends(k) + 1] = " ")}
    IN  IF hits = {} THEN 0
        ELSE Len(Keywords[CHOOSE k \in hits : \A j \in hits : k <= j])

\* \b(unsafe|extern|crate)\b at position p: the length matched, 0 for none
MatchKeyword(t, p) ==
    LET hits == {k \in DOMAIN Keywords :
                    /\ Boundary(t, p - 1)
                    /\ StartsAt(t, p, Keywords[k])
                    /\ Boundary(t, p + Len(Keywords[k]) - 1)}
    IN  IF hits = {} THEN 0
        ELSE Len(Keywords[CHOOSE k \in hits : \A j \in hits : k <= j])

\* \b(macro_rules|include|include_bytes|include_str)(\b|!) at position p
MatchMacro(t, p) ==
    LET ends(k) == p + Len(Macros[k]) - 1
        hits == {k \in DOMAIN Macros :
                    /\ Boundary(t, p - 1)
                    /\ StartsAt(t, p, Macros[k])
                    /\ \/ Boundary(t, ends(k))
                       \/ ends(k) < Len(t) /\ t[ends(k) + 1] = "!"}
    IN  IF hits = {} THEN 0
        ELSE LET k == CHOOSE k \in hits : \A j \in hits : k <= j
             IN  IF Boundary(t, ends(k)) THEN Len(Macros[k]) ELSE Len(Macros[k]) + 1

\* mutant: static at the start of the text is not matched
MatchStatic_NoStart(t, p) ==
    IF /\ p >= 1 /\ p <= Len(t) /\ t[p] # "'"
       /\ StartsAt(t, p + 1, s_static)
       /\ Boundary(t, p + Len(s_static))
    THEN Len(s_static) + 1
    ELSE 0

\* ([^']static\b|^static\b) at position p
MatchStatic(t, p) ==
    IF /\ p >= 1 /\ p <= Len(t) /\ t[p] # "'"
       /\ StartsAt(t, p + 1, s_static)
       /\ Boundary(t, p + Len(s_static))
    THEN Len(s_static) + 1
    ELSE IF p = 1 /\ StartsAt(t, 1, s_static) /\ Boundary(t, Len(s_static))
    THEN Len(s_static)
    ELSE 0

\* RE at position p: the first alternative that matches there
MatchAt(t, p) ==
    IF MatchKeyword(t, p) > 0 THEN MatchKeyword(t, p)
    ELSE IF MatchMacro(t, p) > 0 THEN MatchMacro(t, p)
    ELSE MatchStatic(t, p)

\* RE.find(text): the leftmost match
RE_find(t) ==
    LET at == {p \in 1..Len(t) : MatchAt(t, p) > 0}
    IN  IF at = {} THEN None
        ELSE LET p == CHOOSE p \in at : \A q \in at : p <= q
             IN  Some(SubSeq(t, p, p + MatchAt(t, p) - 1))

\* ([^\[\] ]*) from position j: the position of the last character captured
RECURSIVE CaptureEnd(_, _)
CaptureEnd(t, j) ==
    IF j > Len(t) \/ t[j] \in {"[", "]", " "} THEN j - 1
    ELSE CaptureEnd(t, j + 1)

\* #!?\[ at position i: the position after the bracket, 0 for no match
AttrOpen(t, i) ==
    IF i + 2 <= Len(t) /\ t[i] = "#" /\ t[i + 1] = "!" /\ t[i + 2] = "[" THEN i + 3
    ELSE IF i + 1 <= Len(t) /\ t[i] = "#" /\ t[i + 1] = "[" THEN i + 2
    ELSE 0

AllowedHeads == {s_derive, s_repr, s_inline, s_cfg_test, s_test, s_must_use}

\* mutant: the capture is one of the allowed heads
ALLOWED_RE_is_match_Exact(cap) == cap \in AllowedHeads \cup {s_default}

\* mutant: an empty capture is allowed
ALLOWED_RE_is_match_Empty(cap) ==
    \/ cap = << >>
    \/ \E i \in 1..Len(cap) :
        \/ \E w \in AllowedHeads : StartsAt(cap, i, w)
        \/ StartsAt(cap, i, s_default) /\ Boundary(cap, i + Len(s_default) - 1)

\* ALLOWED_RE.is_match(capture): the pattern is not anchored
ALLOWED_RE_is_match(cap) ==
    \E i \in 1..Len(cap) :
        \/ \E w \in AllowedHeads : StartsAt(cap, i, w)
        \/ StartsAt(cap, i, s_default) /\ Boundary(cap, i + Len(s_default) - 1)

\* ATTR_RE.captures_iter(text) from position i on, matches not overlapping:
\* the first capture that is not allowed is the error
RECURSIVE AttrScan(_, _)
AttrScan(t, i) ==
    IF i > Len(t) THEN [status |-> "Ok", found |-> << >>]
    ELSE IF AttrOpen(t, i) = 0 THEN AttrScan(t, i + 1)
    ELSE LET e == CaptureEnd(t, AttrOpen(t, i))
         IN  IF ALLOWED_RE_is_match(SubSeq(t, AttrOpen(t, i), e))
             THEN AttrScan(t, e + 1)
             ELSE [status |-> "Err", found |-> SubSeq(t, i, e)]

\* check(text): Ok, or the error that names what was found
check(t) ==
    IF RE_find(t).some
    THEN [status |-> "Err", found |-> RE_find(t).val]
    ELSE AttrScan(t, 1)

\* what a program text is put together from
WordPieces ==
    {s_unsafe, s_extern, s_crate, s_static, s_macro_rules, s_include, s_str, s_bytes,
     s_foo, <<" ">>, <<"'">>, <<"!">>, <<"{">>, <<"}">>, <<"\n">>}

\* what an attribute is put together from
AttrPieces ==
    {<<"#", "[">>, <<"#", "!", "[">>, <<"]">>, <<" ">>, <<"\n">>,
     s_derive, s_repr, s_inline, s_cfg_test, s_test, s_must_use, s_default,
     s_link, s_path, s_no_std, s_export_name, s_eq_test, s_u32, <<"s">>}

Pieces(vocab) == IF vocab = "words" THEN WordPieces ELSE AttrPieces

MaxPieces == 4

Unchecked == [status |-> "none", found |-> << >>]
NoText == [vocab |-> "none", pieces |-> 0, text |-> << >>, result |-> Unchecked]

(***************************************************************************)
(* The frontend's Game component (src/frontend/app/src/game.rs).  Its      *)
(* state is a record of the fields the handlers below read and write:      *)
(* teams, overlay, compiler_errors, compilation_cache, background_agents   *)
(* (the number of bridges in the vector), background_snapshots,            *)
(* background_nonce and simulation_window_link (whether it is set).        *)
(* Fields that only serve rendering (frame, last_window_size,              *)
(* last_snapshot, the editor links, seed) are left out.  Four more fields  *)
(* describe the component's surroundings: out, what the last call of       *)
(* update sent, in order; render, the value it returned; received, the     *)
(* snapshot of a background simulation if that call handled one; compiles, *)
(* the compile jobs whose CompileFinished is still to come; responses, the *)
(* worker responses on their way to the component.                         *)
(* background_snapshots is kept as a bag: the order of the vector only     *)
(* decides the best and the worst seed of the summary.                     *)
(***************************************************************************)
NUM_BACKGROUND_SIMULATIONS == 10
BackgroundSeeds == 0..(NUM_BACKGROUND_SIMULATIONS - 1)

\* `self.compilation_cache.len() > 10`
CompilationCacheLimit == 10

\* simulation::Code.  A text is named by a number: 0 is the empty text,
\* negative numbers are the sources of the builtins
Code_None == [tag |-> "None", id |-> 0, encrypted |-> FALSE]
Code_Rust(text) == [tag |-> "Rust", id |-> text, encrypted |-> FALSE]
Code_Encrypted(text) == [tag |-> "Rust", id |-> text, encrypted |-> TRUE]
Code_Wasm(bytes) == [tag |-> "Wasm", id |-> bytes, encrypted |-> FALSE]
Code_Builtin(name) == [tag |-> "Builtin", id |-> name, encrypted |-> FALSE]

\* Result<Code, String>
Ok(code) == [ok |-> TRUE, code |-> code, error |-> << >>]
Err(error) == [ok |-> FALSE, code |-> Code_None, error |-> error]
IsErr(result) == ~result.ok

\* oort_simulator::vm::builtin
load_source(name) == Code_Rust(0 - name)
builtin_compiled(name) == Ok(Code_Wasm(0 - name))

is_encrypted(code) == code.tag = "Rust" /\ code.encrypted

to_source_code(code) == IF code.tag = "Builtin" THEN load_source(code.id) ELSE code

Team_new ==
    [initial_source_code |-> Code_None, running_source_code |-> Code_None,
     initial_compiled_code |-> Code_None, running_compiled_code |-> Code_None]

Game_create ==
    [teams |-> << >>, overlay |-> "None", compiler_errors |-> None,
     compilation_cache |-> << >>, background_agents |-> 0,
     background_snapshots |-> EmptyBag, background_nonce |-> 0,
     simulation_window_link |-> FALSE,
     out |-> << >>, render |-> FALSE, received |-> None,
     compiles |-> << >>, responses |-> EmptyBag, switches |-> 0]

\* update is entered
Handling(g) == [g EXCEPT !.out = << >>, !.render = FALSE, !.received = None]

Sent(op, arg) == [op |-> op, arg |-> arg]

\* HashMap<Code, Code>
cache_get(cache, key) == IF key \in DOMAIN cache THEN Some(cache[key]) ELSE None
cache_insert(cache, key, value) ==
    [k \in (DOMAIN cache) \cup {key} |-> IF k = key THEN value ELSE cache[k]]
cache_len(cache) == Cardinality(DOMAIN cache)

\* errors.join("\n")
RECURSIVE join(_)
join(errors) ==
    IF errors = << >> THEN << >>
    ELSE IF Len(errors) = 1 THEN errors[1]
    ELSE errors[1] \o <<"\n">> \o join(Tail(errors))

running_codes(g) == [i \in DOMAIN g.teams |-> g.teams[i].running_compiled_code]

\* Game::run
run(g) ==
    [g EXCEPT
       !.compiler_errors = None,
       !.out = Append(@, IF g.simulation_window_link
                         THEN Sent("StartSimulation", running_codes(g))
                         ELSE Sent("Missing SimulationWindow", << >>)),
       !.background_agents = 0,
       !.background_snapshots = EmptyBag,
       !.background_nonce = 0]

\* Game::change_scenario for a scenario other than welcome, outside demo
\* mode: codes are the codes codestorage::load returns, player first
change_scenario(g, codes, start) ==
    LET player0 == [Team_new EXCEPT !.initial_source_code = to_source_code(codes[1])]
        cached == cache_get(g.compilation_cache, player0.initial_source_code)
        player_team ==
            IF cached.some /\ start
            THEN [player0 EXCEPT !.running_source_code = player0.initial_source_code,
                                 !.running_compiled_code = cached.val]
            ELSE player0
        enemy_code == IF Len(codes) > 1 THEN codes[2] ELSE Code_None
        enemy_team ==
            [initial_source_code |-> to_source_code(enemy_code),
             running_source_code |-> to_source_code(enemy_code),
             initial_compiled_code |-> enemy_code,
             running_compiled_code |-> enemy_code]
    IN  run([g EXCEPT !.teams = <<player_team, enemy_team>>])

\* Msg::RegisterSimulationWindowLink
RegisterSimulationWindowLinkMsg(g) ==
    [Handling(g) EXCEPT
       !.simulation_window_link = TRUE,
       !.out = << Sent("Msg::SelectScenario", << >>) >>]

\* Msg::SelectScenario and Msg::SelectScenarioAndStart
SelectScenarioMsg(g, codes, start) ==
    [change_scenario(Handling(g), codes, start) EXCEPT
       !.render = TRUE]

\* the code start_compile hands to the compile job for a team
source_code_of(g, team) ==
    IF team.running_source_code = Code_Rust(0) THEN Code_None
    ELSE IF /\ team.running_source_code = team.initial_source_code
            /\ team.initial_compiled_code # Code_None
    THEN team.initial_compiled_code
    ELSE IF cache_get(g.compilation_cache, team.running_source_code).some
    THEN cache_get(g.compilation_cache, team.running_source_code).val
    ELSE team.running_source_code

\* Game::start_compile
start_compile(g) ==
    [g EXCEPT
       !.compiler_errors = None,
       !.overlay = "Compiling",
       !.compiles = Append(@, [i \in DOMAIN g.teams |-> source_code_of(g, g.teams[i])])]

\* Msg::EditorAction, action oort-execute: editor holds get_editor_code()
\* of every team
EditorActionExecuteMsg(g, editor) ==
    LET g1 == Handling(g)
        g2 == [g1 EXCEPT !.teams = [i \in DOMAIN g.teams |->
                   [g.teams[i] EXCEPT !.running_source_code = editor[i]]]]
    IN  [start_compile(g2) EXCEPT !.render = TRUE]

\* the inner function compile of start_compile: the empty text is
\* Code::None; the answer of the compiler service is a function of the text,
\* the module for a text that compiles and the error text for a broken one
compile(text, broken) ==
    IF text = 0 THEN Ok(Code_None)
    ELSE IF text \in DOMAIN broken THEN Err(broken[text])
    ELSE Ok(Code_Wasm(text))

\* the result the job spawned by start_compile pushes for one code
compile_result(source_code, broken) ==
    IF source_code.tag = "Rust" THEN compile(source_code.id, broken)
    ELSE IF source_code.tag = "Builtin" THEN builtin_compiled(source_code.id)
    ELSE Ok(source_code)

\* mutant: the cache is never emptied
TrimCache_Never(cache) == cache

\* `if self.compilation_cache.len() > 10 { self.compilation_cache.clear() }`
TrimCache(cache) == IF cache_len(cache) > CompilationCacheLimit THEN << >> ELSE cache

\* mutant: a team whose compile failed keeps the code it ran before
ApplyResult_KeepsCode(g, team, result) ==
    IF result.ok
    THEN [g EXCEPT
            !.teams[team].running_compiled_code = result.code,
            !.compilation_cache =
                cache_insert(@, g.teams[team].running_source_code, result.code)]
    ELSE g

\* one turn of the loop over the results
ApplyResult(g, team, result) ==
    IF result.ok
    THEN [g EXCEPT
            !.teams[team].running_compiled_code = result.code,
            !.compilation_cache =
                cache_insert(@, g.teams[team].running_source_code, result.code)]
    ELSE [g EXCEPT !.teams[team].running_compiled_code = Code_None]

RECURSIVE ApplyResults(_, _, _)
ApplyResults(g, results, team) ==
    IF team > Len(results) THEN g
    ELSE ApplyResults(ApplyResult(g, team, results[team]), results, team + 1)

error_texts(results) ==
    [i \in DOMAIN SelectSeq(results, IsErr) |-> SelectSeq(results, IsErr)[i].error]

\* Msg::CompileFinished
CompileFinishedMsg(g, results) ==
    LET g0 == Handling(g)
        g1 == IF g0.overlay = "Compiling" THEN [g0 EXCEPT !.overlay = "None"] ELSE g0
        g2 == [g1 EXCEPT !.compilation_cache = TrimCache(@)]
        g3 == [ApplyResults(g2, results, 1) EXCEPT !.render = TRUE]
        errors == error_texts(results)
    IN  IF errors = << >>
        THEN run([g3 EXCEPT !.out = Append(@, Sent("Telemetry::StartScenario",
                                                 g3.teams[1].running_source_code))])
        ELSE [g3 EXCEPT !.compiler_errors = Some(join(errors))]

\* Msg::ShowFeedback
ShowFeedbackMsg(g) ==
    [Handling(g) EXCEPT !.overlay = "Feedback", !.render = TRUE]

\* Msg::DismissOverlay
DismissOverlayMsg(g) ==
    [Handling(g) EXCEPT
       !.overlay = "None",
       !.background_agents = 0,
       !.background_snapshots = EmptyBag,
       !.background_nonce = 0,
       !.render = TRUE]

leaderboard_eligible(g) ==
    /\ \A i \in 2..Len(g.teams) :
          g.teams[i].running_source_code = g.teams[i].initial_source_code
    /\ ~is_encrypted(g.teams[1].running_source_code)

\* the StartScenario requests of a batch, one for each seed
BatchRequests(nonce) ==
    [i \in 1..NUM_BACKGROUND_SIMULATIONS |->
        Sent("Request::StartScenario", [seed |-> i - 1, nonce |-> nonce])]

\* Game::on_simulation_finished outside demo mode; nonce is what
\* rand::thread_rng().gen() returns
on_simulation_finished(g, snapshot, nonce) ==
    IF snapshot.errors
    THEN [g EXCEPT !.compiler_errors = Some(<<"Simulation errors">>), !.render = TRUE]
    ELSE IF leaderboard_eligible(g) /\ snapshot.status = "Victory0"
    THEN [g EXCEPT
            !.background_agents = NUM_BACKGROUND_SIMULATIONS,
            !.background_snapshots = EmptyBag,
            !.background_nonce = nonce,
            !.out = BatchRequests(nonce),
            !.overlay = "MissionComplete",
            !.render = TRUE]
    ELSE [g EXCEPT !.render = TRUE]

\* Msg::SimulationFinished
SimulationFinishedMsg(g, snapshot, nonce) ==
    on_simulation_finished(Handling(g), snapshot, nonce)

\* the seeds of the snapshots, with their multiplicities
found_seeds(snapshots) ==
    LET seeds == {s.seed : s \in BagToSet(snapshots)}
    IN  [seed \in seeds |->
            BagCardinality([s \in {x \in BagToSet(snapshots) : x.seed = seed} |->
                               snapshots[s]])]

\* mutant: the seeds are only counted
summarize_CountOnly(snapshots, nonce) ==
    IF \E s \in BagToSet(snapshots) : s.nonce # nonce THEN None
    ELSE IF BagCardinality(snapshots) # NUM_BACKGROUND_SIMULATIONS THEN None
    ELSE Some([count |-> BagCardinality(snapshots)])

\* Game::summarize_background_simulations, up to the seeds: the sorted
\* seeds are compared with 0..NUM_BACKGROUND_SIMULATIONS - 1
summarize_background_simulations(snapshots, nonce) ==
    IF \E s \in BagToSet(snapshots) : s.nonce # nonce THEN None
    ELSE IF found_seeds(snapshots) # SetToBag(BackgroundSeeds) THEN None
    ELSE Some([count |-> BagCardinality(snapshots)])

\* mutant: the nonce of the snapshot is not looked at
ReceivedSnapshot_AnyNonce(g, snapshot, seed) ==
    IF snapshot.running
    THEN [g EXCEPT !.out = IF g.background_agents # 0
                           THEN << Sent("Request::Snapshot",
                                        [seed |-> seed, nonce |-> g.background_nonce]) >>
                           ELSE << >>]
    ELSE [g EXCEPT
            !.background_snapshots =
                @ (+) SetToBag({[seed |-> seed, nonce |-> snapshot.nonce]}),
            !.render = TRUE]

\* the arm of update for a snapshot of a background simulation; running
\* says that the status is Running and the time below the limit
ReceivedSnapshot(g, snapshot, seed) ==
    IF snapshot.nonce = g.background_nonce
    THEN IF snapshot.running
         THEN [g EXCEPT !.out = IF g.background_agents # 0
                                THEN << Sent("Request::Snapshot",
                                             [seed |-> seed, nonce |-> g.background_nonce]) >>
                                ELSE << >>]
         ELSE LET snapshots == g.background_snapshots
                                 (+) SetToBag({[seed |-> seed, nonce |-> snapshot.nonce]})
                  summary == summarize_background_simulations(snapshots, g.background_nonce)
              IN  [g EXCEPT
                     !.background_snapshots = snapshots,
                     !.out = IF summary.some
                             THEN << Sent("Telemetry::FinishScenario", summary.val) >>
                             ELSE << >>,
                     !.render = TRUE]
    ELSE g

\* Msg::ReceivedBackgroundSimAgentResponse
ReceivedBackgroundSimAgentResponseMsg(g, snapshot, seed) ==
    ReceivedSnapshot([Handling(g) EXCEPT !.received = Some(snapshot)], snapshot, seed)

(***************************************************************************)
(* State                                                                   *)
(***************************************************************************)
VARIABLES
    ships,      \* TeamController.ships: handle -> LocalSystemState of its controller
    sim,        \* the simulation: [ships, tick, seed]
    mem,        \* the linear memory of the team's instance: [state, heap]
    gas,        \* gas left in the instance
    pc,         \* "idle", "loop" (in TeamController::tick, between ships),
                \* "guest" (inside export_tick_ship), "done" (tick returned)
    handles,    \* the handles TeamController::tick has still to visit
    trace,      \* guest calls, memory transfers and simulation calls of the
                \* current team tick, in order
    errored,    \* handles of the map whose ShipController::tick has returned Err
    writes,     \* number of guest stores so far
    vm,         \* the team's WasmVm and the cell around its store; before
                \* new_team_controller, the Code it is about to be given
    san,        \* the compiler service's sanitizer: the text submitted so
                \* far and the result of check
    game        \* the frontend's Game component

vars == <<ships, sim, mem, gas, pc, handles, trace, errored, writes, vm, san, game>>

MaxShips == 2
MaxTicks == 2
MaxWrites == 1
GasChunk == 600000
SimSeed == 7

Samples == {NaN, PosInf, NegInf, FromInt(-1), Zero, HalfVal, One}

\* stores of the guest: one slot, or a weapon group's Fire and Aim together
SingleWrites(S, V) == {(s :> v) : s \in S, v \in V}
FireWrites(V) == {(FireOf(k) :> One) @@ (AimOf(k) :> v) : k \in 0..3, v \in V}

\* two weapon groups fired in one tick, with different aims
VolleyWrites ==
    {(FireOf(p[1]) :> One) @@ (FireOf(p[2]) :> HalfVal)
        @@ (AimOf(p[1]) :> One) @@ (AimOf(p[2]) :> FromInt(-1)) :
     p \in {q \in (0..3) \X (0..3) : q[1] < q[2]}}

\* what a guest may store in ActivateAbility: the codes of the abilities,
\* codes between and past them, and a negative value
AbilitySamples ==
    {FromInt(n) : n \in 2..5} \cup {Fin(Den + 1), Fin(4 * Den + 1), Fin(1 - 2 * Den)}

AbilityWrites == SingleWrites({"ActivateAbility"}, AbilitySamples)

\* a guest that sends on radio i: the send flag, a channel and two of the
\* four doubles of the message
RadioWrites ==
    {(radio_indices(i).send :> v) @@ (radio_indices(i).channel :> FromInt(3))
        @@ (radio_indices(i).data[1] :> FromInt(3)) @@ (radio_indices(i).data[4] :> NaN) :
     i \in 0..1, v \in {One, FromInt(-1)}}

TeamWrites == SingleWrites({"Fire1", "Explode"}, {One})
ShipWrites ==
    SingleWrites(Slots, Samples) \cup FireWrites(Samples) \cup VolleyWrites
        \cup AbilityWrites \cup RadioWrites

HeapStates == {ZeroedHeap,
               [ZeroedHeap EXCEPT !.utf8 = FALSE],
               [ZeroedHeap EXCEPT !.badLine = 1],
               [ZeroedHeap EXCEPT !.badLine = 37],
               [ZeroedHeap EXCEPT !.badLine = MaxDebugBatch],
               [ZeroedHeap EXCEPT !.badText = 1],
               [ZeroedHeap EXCEPT !.badText = MaxDebugBatch],
               [ZeroedHeap EXCEPT !.longText = 2]}

\* what a guest that produces debug output stores in the state array: the
\* pointer and the length of a text, of a batch of lines or of a batch of
\* texts, in bounds or not, alone or next to commands
BatchLengths == {1, MaxDebugBatch, MaxDebugBatch + 1}

DebugStores ==
    {("DebugTextPointer" :> FromInt(ptr)) @@ ("DebugTextLength" :> FromInt(n)) :
        ptr \in {0, MemBytes - 1}, n \in {1, 2}}
    \cup {("DebugLinesPointer" :> FromInt(ptr)) @@ ("DebugLinesLength" :> FromInt(n)) :
        ptr \in {0, MemBytes - LineBytes}, n \in BatchLengths}
    \cup {("DrawnTextPointer" :> FromInt(ptr)) @@ ("DrawnTextLength" :> FromInt(n)) :
        ptr \in {0, MemBytes - TextBytes}, n \in BatchLengths}

DebugCommands == {<< >>, ("Torque" :> One) @@ ("Fire2" :> One) @@ ("Aim2" :> HalfVal)}

\* a length the guest stores as a fraction: it is > 0.0 and casts to 0
DebugFractions ==
    {<< >>, ("DebugTextLength" :> HalfVal), ("DebugLinesLength" :> HalfVal),
     ("DrawnTextLength" :> HalfVal)}

ScribbleWrites ==
    {d @@ c @@ f : d \in DebugStores, c \in DebugCommands, f \in DebugFractions}

Init ==
    /\ ships = << >>
    /\ sim = [ships |-> << >>, tick |-> 0, seed |-> SimSeed]
    /\ mem = [state |-> LocalSystemState_new, heap |-> ZeroedHeap]
    /\ gas = 0
    /\ pc = "idle"
    /\ handles = << >>
    /\ trace = << >>
    /\ errored = {}
    /\ writes = 0
    /\ vm = ReferenceVm
    /\ san = NoText
    /\ game = Game_create

Idle == pc \in {"idle", "done"}

(***************************************************************************)
(* TeamController::add_ship and remove_ship                                *)
(***************************************************************************)
\* make_seed for the simulation's seed and the handles, computed once
SeedsOfHandles == {<<h, make_seed(SimSeed, h)>> : h \in Handles}

add_ship(shipmap, handle, simv) ==
    LET hash == IF simv.seed = SimSeed /\ handle \in Handles
                THEN (CHOOSE p \in SeedsOfHandles : p[1] = handle)[2]
                ELSE make_seed(simv.seed, handle)
        s0 == set(LocalSystemState_new, "Seed", FromInt(LowBits(hash)))
        radar == simv.ships[handle].radar
        s1 == IF radar.present
              THEN set(set(set(set(s0, "RadarHeading", radar.heading),
                               "RadarWidth", radar.width),
                           "RadarMinDistance", radar.min_distance),
                       "RadarMaxDistance", radar.max_distance)
              ELSE s0
    IN  [h \in (DOMAIN shipmap) \cup {handle} |->
            IF h = handle THEN s1 ELSE shipmap[h]]

\* mutant: the map is cleared
remove_ship_All(shipmap, handle) == << >>

remove_ship(shipmap, handle) ==
    [h \in (DOMAIN shipmap) \ {handle} |-> shipmap[h]]

\* the simulation creates a ship in a free slot of its arena and hands it to
\* the team
AddShipOf(limit, kinds) ==
    /\ Idle
    /\ Cardinality(DOMAIN ships) < limit
    /\ \E handle \in Handles, data \in kinds :
        /\ \A h \in DOMAIN sim.ships : h.index # handle.index
        /\ sim' = [sim EXCEPT !.ships =
                     [h \in (DOMAIN sim.ships) \cup {handle} |->
                        IF h = handle THEN data ELSE sim.ships[h]]]
        /\ ships' = add_ship(ships, handle, sim')
        /\ errored' = errored \ {handle}
    /\ pc' = "idle"
    /\ UNCHANGED <<mem, gas, handles, trace, writes, vm>>
    /\ UNCHANGED <<san, game>>

AddShip(limit) == AddShipOf(limit, ShipKinds)

\* the simulation drops a ship and tells the team
RemoveShip ==
    /\ Idle
    /\ \E handle \in Handles :
        /\ ships' = remove_ship(ships, handle)
        /\ sim' = [sim EXCEPT !.ships =
                     [h \in (DOMAIN sim.ships) \ {handle} |-> sim.ships[h]]]
        /\ errored' = errored \ {handle}
    /\ pc' = "idle"
    /\ UNCHANGED <<mem, gas, handles, trace, writes, vm>>
    /\ UNCHANGED <<san, game>>

(***************************************************************************)
(* TeamController::tick                                                    *)
(***************************************************************************)
\* self.ships.keys(): the keys in the order the hash map yields them
KeyOrders(S) ==
    {o \in [1..Cardinality(S) -> S] : \A i, j \in DOMAIN o : i # j => o[i] # o[j]}

RECURSIVE InsertByKey(_, _)
InsertByKey(x, s) ==
    IF s = << >> THEN <<x>>
    ELSE IF ~KeyLess(Head(s), x) THEN <<x>> \o s
    ELSE <<Head(s)>> \o InsertByKey(x, Tail(s))

RECURSIVE sort_by_key(_)
sort_by_key(s) ==
    IF s = << >> THEN << >>
    ELSE InsertByKey(Head(s), sort_by_key(Tail(s)))

\* mutant: the handles are visited in the order of the hash map
CollectHandles_Unsorted(order) == order

CollectHandles(order) == sort_by_key(order)

TickBegin ==
    /\ Idle
    /\ sim.tick < MaxTicks
    /\ \E order \in KeyOrders(DOMAIN ships) :
        handles' = CollectHandles(order)
    /\ trace' = << >>
    /\ pc' = "loop"
    /\ UNCHANGED <<ships, sim, mem, gas, errored, writes, vm>>
    /\ UNCHANGED <<san, game>>

\* the guest's side of a run of calls: reset_gas(n) sets the gas counter
RECURSIVE GasAfterCalls(_, _)
GasAfterCalls(g, evs) ==
    IF evs = << >> THEN g
    ELSE GasAfterCalls(IF Head(evs).op = "reset_gas" THEN Head(evs).k ELSE g,
                       Tail(evs))

\* mutant: the gas is not reset before the call
TickPrologue_NoReset(handle) ==
    << Ev("generate_system_state", handle, 0, << >>),
       Ev("write_system_state", handle, 0, << >>),
       Ev("export_tick_ship", handle, into_raw_parts(handle)[1], << >>) >>

\* ShipController::tick up to the call of export_tick_ship, reset_gas having
\* returned: the calls it makes, in order
TickPrologue(handle) ==
    << Ev("reset_gas", handle, GAS_PER_TICK, << >>),
       Ev("generate_system_state", handle, 0, << >>),
       Ev("write_system_state", handle, 0, << >>),
       Ev("export_tick_ship", handle, into_raw_parts(handle)[1], << >>) >>

\* ShipController::tick when reset_gas traps: the error is returned at once
TickResetTrapped(simv, handle, state) ==
    [ok |-> FALSE, sim |-> simv, state |-> state,
     ev |-> << Ev("reset_gas", handle, GAS_PER_TICK, << >>),
               Ev(translate_runtime_error(TRUE).msg, handle, 0, << >>) >>]

\* mutant: the result of export_tick_ship is looked at only after the state
\* has been read back and applied
TickAfterCall_NoEarlyReturn(trapped, simv, handle, state, memv) ==
    LET r == apply_system_state(simv, handle, read_system_state(memv))
    IN  [ok |-> ~trapped, sim |-> r.sim, state |-> r.state,
         ev |-> << Ev("read_system_state", handle, 0, << >>) >> \o r.ev
                  \o ProcessDebug(handle, r.state, memv)
                  \o << Ev(translate_runtime_error(trapped).msg, handle, 0, << >>) >>]

\* ShipController::tick after export_tick_ship: the error is returned if the
\* call trapped, else the state is read back and applied and the debug
\* output is processed
TickAfterCall(trapped, simv, handle, state, memv) ==
    IF trapped
    THEN [ok |-> FALSE, sim |-> simv, state |-> state,
          ev |-> << Ev(translate_runtime_error(TRUE).msg, handle, 0, << >>) >>]
    ELSE LET r == apply_system_state(simv, handle, read_system_state(memv))
         IN  [ok |-> TRUE, sim |-> r.sim, state |-> r.state,
              ev |-> << Ev("read_system_state", handle, 0, << >>) >> \o r.ev
                       \o ProcessDebug(handle, r.state, memv)
                       \o << Ev(translate_runtime_error(FALSE).msg, handle, 0, << >>) >>]

\* the store accesses of ShipController::tick up to the call of
\* export_tick_ship: reset_gas, write_system_state, and the call, which
\* holds the store while the guest runs
TickPrologueAccesses == GuestCall \o ViewScope \o GuestCallBegin

\* the reads of guest memory the debug blocks make
DebugReads(state) ==
    (IF GtZero(get(state, "DebugTextLength")) THEN ViewScope ELSE << >>)
    \o (IF /\ GtZero(get(state, "DebugLinesLength"))
            /\ AsU32(get(state, "DebugLinesLength")) <= MaxDebugBatch
         THEN ViewScope ELSE << >>)
    \o (IF /\ GtZero(get(state, "DrawnTextLength"))
            /\ AsU32(get(state, "DrawnTextLength")) <= MaxDebugBatch
         THEN ViewScope ELSE << >>)

\* the store accesses from the return of export_tick_ship on
TickEpilogueAccesses(trapped, state) ==
    IF trapped THEN GuestCallEnd
    ELSE GuestCallEnd \o ViewScope \o DebugReads(state)

\* the Err arm of TeamController::tick
TeamOnErr(simv, handle) == SimExplode(simv, handle)

\* the handles left to visit after a ship's tick returned Ok / Err
NextHandle(hs) == Tail(hs)
\* mutant: the error ends the team tick
AfterErr_Abort(hs) == << >>

AfterErr(hs) == Tail(hs)

\* mutant: the controller of a ship whose tick failed is dropped from the map
TeamAfterShip_DropsFailed(handle, r) ==
    /\ IF r.ok
       THEN /\ ships' = [ships EXCEPT ![handle] = r.state]
            /\ sim' = r.sim
            /\ trace' = trace \o r.ev
            /\ errored' = errored
            /\ handles' = NextHandle(handles)
       ELSE /\ ships' = [h \in (DOMAIN ships) \ {handle} |-> ships[h]]
            /\ sim' = TeamOnErr(r.sim, handle)
            /\ trace' = trace \o r.ev \o << Ev("team_explode", handle, 0, << >>) >>
            /\ errored' = errored \cup {handle}
            /\ handles' = AfterErr(handles)
    /\ pc' = "loop"

\* the body of the for loop of TeamController::tick, given the result r of
\* ctrl.tick(sim)
TeamAfterShip(handle, r) ==
    /\ ships' = [ships EXCEPT ![handle] = r.state]
    /\ IF r.ok
       THEN /\ sim' = r.sim
            /\ trace' = trace \o r.ev
            /\ errored' = errored
            /\ handles' = NextHandle(handles)
       ELSE /\ sim' = TeamOnErr(r.sim, handle)
            /\ trace' = trace \o r.ev \o << Ev("team_explode", handle, 0, << >>) >>
            /\ errored' = errored \cup {handle}
            /\ handles' = AfterErr(handles)
    /\ pc' = "loop"

ShipTickResetTrap ==
    /\ pc = "loop"
    /\ handles # << >>
    /\ LET handle == Head(handles)
       IN  TeamAfterShip(handle, TickResetTrapped(sim, handle, ships[handle]))
    /\ vm' = [vm EXCEPT !.store = Accesses(@, GuestCall)]
    /\ UNCHANGED <<mem, gas, writes>>
    /\ UNCHANGED <<san, game>>

\* reset_gas returns: generate, write, and call export_tick_ship
ShipTickCall ==
    /\ pc = "loop"
    /\ handles # << >>
    /\ vm.module.state_in_memory
    /\ vm' = [vm EXCEPT !.store = Accesses(@, TickPrologueAccesses)]
    /\ LET handle == Head(handles)
       IN  \E contact \in {NoContact, SomeContact} :
             /\ (contact.present => sim.ships[handle].radar.present)
             /\ ships' = [ships EXCEPT ![handle] =
                            generate_system_state(sim, handle, @, contact)]
             /\ mem' = write_system_state(ships'[handle], mem)
             /\ gas' = GasAfterCalls(gas, TickPrologue(handle))
             /\ trace' = trace \o TickPrologue(handle)
    /\ pc' = "guest"
    /\ UNCHANGED <<sim, handles, errored, writes>>
    /\ UNCHANGED <<san, game>>

\* the instrumentation debits the gas counter as the guest runs
Debit(g) == g - GasChunk

GuestWrite(W) ==
    /\ pc = "guest"
    /\ Debit(gas) >= 0
    /\ writes < MaxWrites
    /\ \E w \in W :
        /\ \E s \in DOMAIN w : mem.state[s] # w[s]
        /\ mem' = [mem EXCEPT !.state = SetMany(@, w)]
    /\ gas' = Debit(gas)
    /\ writes' = writes + 1
    /\ UNCHANGED <<ships, sim, pc, handles, trace, errored, vm>>
    /\ UNCHANGED <<san, game>>

\* the guest stores to its heap and to the state array, in one turn
GuestScribble(H, W) ==
    /\ pc = "guest"
    /\ Debit(gas) >= 0
    /\ writes < MaxWrites
    /\ \E hp \in H, w \in W :
        mem' = [state |-> SetMany(mem.state, w), heap |-> hp]
    /\ gas' = Debit(gas)
    /\ writes' = writes + 1
    /\ UNCHANGED <<ships, sim, pc, handles, trace, errored, vm>>
    /\ UNCHANGED <<san, game>>

\* one more turn of a loop in the guest
GuestBurn ==
    /\ pc = "guest"
    /\ Debit(gas) >= 0
    /\ gas' = Debit(gas)
    /\ UNCHANGED <<ships, sim, mem, pc, handles, trace, errored, writes, vm>>
    /\ UNCHANGED <<san, game>>

\* export_tick_ship returns
ShipTickReturn ==
    /\ pc = "guest"
    /\ LET handle == Head(handles)
       IN  TeamAfterShip(handle, TickAfterCall(FALSE, sim, handle, ships[handle], mem))
    /\ vm' = [vm EXCEPT !.store = Accesses(@, TickEpilogueAccesses(FALSE, mem.state))]
    /\ UNCHANGED <<mem, gas, writes>>
    /\ UNCHANGED <<san, game>>

\* export_tick_ship traps: out of gas, or any other trap of the guest
ShipTickTrap ==
    /\ pc = "guest"
    /\ LET handle == Head(handles)
       IN  TeamAfterShip(handle, TickAfterCall(TRUE, sim, handle, ships[handle], mem))
    /\ vm' = [vm EXCEPT !.store = Accesses(@, TickEpilogueAccesses(TRUE, mem.state))]
    /\ UNCHANGED <<mem, gas, writes>>
    /\ UNCHANGED <<san, game>>

\* write_system_state finds the state array outside the linear memory:
\* .expect("system state write") panics, after reset_gas has returned and
\* the outbound state has been generated
TickWritePanicked(handle) ==
    << Ev("reset_gas", handle, GAS_PER_TICK, << >>),
       Ev("generate_system_state", handle, 0, << >>),
       Ev("panic: system state write", handle, 0, << >>) >>

ShipTickWritePanic ==
    /\ pc = "loop"
    /\ handles # << >>
    /\ ~vm.module.state_in_memory
    /\ LET handle == Head(handles)
       IN  \E contact \in {NoContact, SomeContact} :
             /\ (contact.present => sim.ships[handle].radar.present)
             /\ ships' = [ships EXCEPT ![handle] =
                            generate_system_state(sim, handle, @, contact)]
             /\ gas' = GasAfterCalls(gas, TickWritePanicked(handle))
             /\ trace' = trace \o TickWritePanicked(handle)
    /\ vm' = [vm EXCEPT !.store = Accesses(@, GuestCall \o memory_view \o << "drop_view" >>)]
    /\ pc' = "panicked"
    /\ UNCHANGED <<sim, mem, handles, errored, writes>>
    /\ UNCHANGED <<san, game>>

\* read_vec of a batch of length 0: read_to_vec yields an empty Vec<u8>,
\* whose pointer is not aligned for T, and slice::from_raw_parts is called
\* on it
ZeroLengthVec(state, memv, ptr, len) ==
    /\ GtZero(get(state, len))
    /\ AsU32(get(state, len)) = 0
    /\ SliceOk(AsU32(get(state, ptr)), 0)

\* ShipController::tick in a build that checks the preconditions of
\* from_raw_parts: the process is aborted in the first read_vec of length 0
TickAborted(simv, handle, state, memv) ==
    LET r == apply_system_state(simv, handle, read_system_state(memv))
        before == IF ZeroLengthVec(r.state, memv, "DebugLinesPointer", "DebugLinesLength")
                  THEN DebugText(handle, r.state, memv)
                  ELSE DebugText(handle, r.state, memv) \o DebugLines(handle, r.state, memv)
    IN  [sim |-> r.sim, state |-> r.state,
         ev |-> << Ev("read_system_state", handle, 0, << >>) >> \o r.ev \o before
                  \o << Ev("abort: slice::from_raw_parts", handle, 0, << >>) >>]

\* export_tick_ship returns and the tick reaches a read_vec of length 0:
\* undefined behaviour; a build without the checks goes on as ShipTickReturn
\* does, a build with them aborts
ShipTickAbort ==
    /\ pc = "guest"
    /\ \/ ZeroLengthVec(mem.state, mem, "DebugLinesPointer", "DebugLinesLength")
       \/ ZeroLengthVec(mem.state, mem, "DrawnTextPointer", "DrawnTextLength")
    /\ LET handle == Head(handles)
           r == TickAborted(sim, handle, ships[handle], mem)
       IN  /\ ships' = [ships EXCEPT ![handle] = r.state]
           /\ sim' = r.sim
           /\ trace' = trace \o r.ev
    /\ LET text == IF GtZero(get(mem.state, "DebugTextLength")) THEN ViewScope ELSE << >>
           lines == IF ZeroLengthVec(mem.state, mem, "DebugLinesPointer",
                                     "DebugLinesLength")
                    THEN << >>
                    ELSE IF /\ GtZero(get(mem.state, "DebugLinesLength"))
                            /\ AsU32(get(mem.state, "DebugLinesLength")) <= MaxDebugBatch
                    THEN ViewScope ELSE << >>
       IN  \* the views of read_system_state and of the reads made so far are
           \* dropped, the view of the aborting read_vec is not
           vm' = [vm EXCEPT !.store =
                     Accesses(@, GuestCallEnd \o ViewScope \o text \o lines \o memory_view)]
    /\ pc' = "panicked"
    /\ UNCHANGED <<mem, gas, handles, errored, writes>>
    /\ UNCHANGED <<san, game>>

\* ShipController::delete: export_delete_ship(index); a trap is logged
\* mutant: the generation of the handle is passed
delete_Generation(handle, trapped) ==
    << Ev("export_delete_ship", handle, into_raw_parts(handle)[2], << >>) >>
    \o (IF translate_runtime_error(trapped).ok THEN << >>
        ELSE << Ev("warn: Failed to delete ship", handle, 0, << >>) >>)

delete(handle, trapped) ==
    << Ev("export_delete_ship", handle, into_raw_parts(handle)[1], << >>) >>
    \o (IF translate_runtime_error(trapped).ok THEN << >>
        ELSE << Ev("warn: Failed to delete ship", handle, 0, << >>) >>)

ShipDelete ==
    /\ Idle
    /\ \E handle \in DOMAIN ships, trapped \in BOOLEAN :
        trace' = delete(handle, trapped)
    /\ vm' = [vm EXCEPT !.store = Accesses(@, GuestCall)]
    /\ pc' = "idle"
    /\ UNCHANGED <<ships, sim, mem, gas, handles, errored, writes>>
    /\ UNCHANGED <<san, game>>

\* new_team_controller(&code)
NewTeamController ==
    /\ pc = "new"
    /\ LET r == new_team_controller(vm.code)
       IN  /\ vm' = IF r.status = "Ok" THEN r.val ELSE [vm EXCEPT !.status = r.status]
           /\ trace' = trace \o r.ev
           /\ pc' = CASE r.status = "Ok" -> "idle"
                      [] r.status = "Err" -> "failed"
                      [] OTHER -> "panicked"
    /\ UNCHANGED <<ships, sim, mem, gas, handles, errored, writes>>
    /\ UNCHANGED <<san, game>>

\* TeamController::create(&code), called directly
CreateTeamController ==
    /\ pc = "new"
    /\ LET r == TeamController_create(vm.code)
       IN  /\ vm' = IF r.status = "Ok" THEN r.val ELSE [vm EXCEPT !.status = r.status]
           /\ trace' = trace \o r.ev
           /\ pc' = CASE r.status = "Ok" -> "idle"
                      [] r.status = "Err" -> "failed"
                      [] OTHER -> "panicked"
    /\ UNCHANGED <<ships, sim, mem, gas, handles, errored, writes>>
    /\ UNCHANGED <<san, game>>

\* precompile(bytes) on the bytes of a Code::Wasm; the caller holds the
\* Code::Precompiled it returns
Precompile ==
    /\ pc = "new"
    /\ vm.code.tag = "Wasm"
    /\ LET r == precompile(vm.code.bytes)
       IN  /\ vm' = IF r.status = "Ok" THEN [vm EXCEPT !.code = r.val]
                    ELSE [vm EXCEPT !.status = r.status]
           /\ trace' = trace \o r.ev
           /\ pc' = IF r.status = "Ok" THEN "new" ELSE "failed"
    /\ UNCHANGED <<ships, sim, mem, gas, handles, errored, writes>>
    /\ UNCHANGED <<san, game>>

TickEnd ==
    /\ pc = "loop"
    /\ handles = << >>
    /\ pc' = "done"
    /\ sim' = [sim EXCEPT !.tick = @ + 1]
    /\ UNCHANGED <<ships, mem, gas, handles, trace, errored, writes, vm>>
    /\ UNCHANGED <<san, game>>

Next ==
    \/ AddShip(MaxShips)
    \/ RemoveShip
    \/ TickBegin
    \/ ShipTickResetTrap
    \/ ShipTickCall
    \/ GuestWrite(TeamWrites)
    \/ GuestBurn
    \/ ShipTickReturn
    \/ ShipTickTrap
    \/ TickEnd

Spec == Init /\ [][Next]_vars

\* one ship, and a guest that may store any sample value in any slot
NextShip ==
    \/ AddShipOf(1, RadioShipKinds)
    \/ TickBegin
    \/ ShipTickResetTrap
    \/ ShipTickCall
    \/ GuestWrite(ShipWrites)
    \/ GuestScribble(HeapStates, ScribbleWrites)
    \/ GuestBurn
    \/ ShipTickReturn
    \/ ShipTickAbort
    \/ ShipTickTrap
    \/ TickEnd

ShipSpec == Init /\ [][NextShip]_vars

\* a team from the Code it is created from: any module bytes, any variant
InitVm ==
    /\ ships = << >>
    /\ sim = [ships |-> << >>, tick |-> 0, seed |-> SimSeed]
    /\ mem = [state |-> LocalSystemState_new, heap |-> ZeroedHeap]
    /\ gas = 0
    /\ pc = "new"
    /\ handles = << >>
    /\ trace = << >>
    /\ errored = {}
    /\ writes = 0
    /\ \E c \in Codes : vm = [NoVm EXCEPT !.code = c]
    /\ san = NoText
    /\ game = Game_create

NextVm ==
    \/ Precompile
    \/ NewTeamController
    \/ CreateTeamController
    \/ GuestWrite(DebugStores)
    \/ AddShip(MaxShips)
    \/ ShipDelete
    \/ TickBegin
    \/ ShipTickResetTrap
    \/ ShipTickCall
    \/ ShipTickWritePanic
    \/ GuestBurn
    \/ ShipTickReturn
    \/ ShipTickTrap
    \/ TickEnd

VmSpec == InitVm /\ [][NextVm]_vars

\* ships come and go between the ticks; the guest loops, returns or traps
\* a user writes a program text, piece by piece
Type ==
    /\ san.result = Unchecked
    /\ san.pieces < MaxPieces
    /\ \E piece \in Pieces(san.vocab) :
        san' = [san EXCEPT !.text = @ \o piece, !.pieces = @ + 1]
    /\ UNCHANGED <<ships, sim, mem, gas, pc, handles, trace, errored, writes, vm, game>>

\* the compiler service calls check on the text submitted
Check ==
    /\ san.result = Unchecked
    /\ san' = [san EXCEPT !.result = check(san.text)]
    /\ UNCHANGED <<ships, sim, mem, gas, pc, handles, trace, errored, writes, vm, game>>

InitSan ==
    /\ ships = << >>
    /\ sim = [ships |-> << >>, tick |-> 0, seed |-> SimSeed]
    /\ mem = [state |-> LocalSystemState_new, heap |-> ZeroedHeap]
    /\ gas = 0
    /\ pc = "idle"
    /\ handles = << >>
    /\ trace = << >>
    /\ errored = {}
    /\ writes = 0
    /\ vm = ReferenceVm
    /\ san \in {[NoText EXCEPT !.vocab = v] : v \in {"words", "attrs"}}
    /\ game = Game_create

NextSan == Type \/ Check

SanitizerSpec == InitSan /\ [][NextSan]_vars

(***************************************************************************)
(* The Game component: messages                                            *)
(***************************************************************************)
MaxNonce == 1
MaxStale == 1
MaxCompiles == 1
MaxSwitches == 1
NumTexts == 11

\* what rand::thread_rng().gen() can return
Nonces == 0..MaxNonce

rest == <<ships, sim, mem, gas, pc, handles, trace, errored, writes, vm, san>>

\* background_agents.clear() drops the bridges of a batch: the responses
\* on their way to them are lost, or still delivered
DropBridges(g) ==
    IF g.background_agents = 0 THEN {g.responses}
    ELSE {SetToBag(S) : S \in {T \in SUBSET BagToSet(g.responses) :
                                    Cardinality(T) <= MaxStale}}

\* every agent of a new batch answers its StartScenario request
BatchResponses(nonce) == SetToBag({[seed |-> s, nonce |-> nonce] : s \in BackgroundSeeds})

\* the SimulationWindow registers itself
RegisterSimulationWindowLink ==
    /\ ~game.simulation_window_link
    /\ game' = RegisterSimulationWindowLinkMsg(game)
    /\ UNCHANGED rest

\* the text in the player's editor: the code that runs, or after a change
\* of scenario the initial code; the first text before any scenario
PlayerText(g) ==
    IF g.teams = << >> THEN Code_Rust(1)
    ELSE IF g.teams[1].running_source_code.tag = "Rust"
    THEN g.teams[1].running_source_code
    ELSE g.teams[1].initial_source_code

\* what codestorage::load returns for the scenario: the player's code as
\* change_scenario has just saved it, and the enemy's builtin
StoredCodes(g) == {<<PlayerText(g), Code_Builtin(1)>>}

\* a scenario is selected; switches counts the selections made while a
\* compile job was running, which MaxSwitches bounds
SelectScenario ==
    /\ game.simulation_window_link
    /\ game.compiles # << >> => game.switches < MaxSwitches
    /\ \E codes \in StoredCodes(game), start \in BOOLEAN, r \in DropBridges(game) :
        game' = [SelectScenarioMsg(game, codes, start) EXCEPT
                    !.responses = r,
                    !.switches = IF game.compiles # << >> THEN @ + 1 ELSE @]
    /\ UNCHANGED rest

\* what the editors hold when the user runs the code: the player runs the
\* text again or goes on to the next text, the texts being numbered as they
\* are written; the enemy's code is as the scenario gave it, or edited into
\* a text that is rejected or one that compiles
PlayerEdits(g) ==
    LET cur == PlayerText(g).id
    IN  {Code_Rust(n) : n \in {cur, cur + 1} \cap (1..NumTexts)}

EnemyEdits(g) ==
    {g.teams[2].initial_source_code, Code_Rust(NumTexts + 1), Code_Rust(NumTexts + 2)}

\* the texts the compiler service rejects, with its answers: the player's
\* second text and the enemy's edited one
BrokenTexts == (2 :> <<"error: a">>) @@ ((NumTexts + 1) :> <<"error: b">>)

EditorActionExecute ==
    /\ game.simulation_window_link
    /\ game.teams # << >>
    /\ Len(game.compiles) < MaxCompiles
    /\ \E player \in PlayerEdits(game), enemy \in EnemyEdits(game) :
        game' = EditorActionExecuteMsg(game, <<player, enemy>>)
    /\ UNCHANGED rest

\* the results a compile job sends for the codes it was given
ResultsOf(job) == [i \in DOMAIN job |-> compile_result(job[i], BrokenTexts)]

CompileFinished ==
    /\ game.compiles # << >>
    /\ LET results == ResultsOf(Head(game.compiles))
            g == CompileFinishedMsg(game, results)
        IN  \E r \in (IF error_texts(results) = << >> THEN DropBridges(game)
                      ELSE {game.responses}) :
              game' = [g EXCEPT !.compiles = Tail(game.compiles), !.responses = r]
    /\ UNCHANGED rest

ShowFeedback ==
    /\ game.simulation_window_link
    /\ game' = ShowFeedbackMsg(game)
    /\ UNCHANGED rest

\* the overlay is clicked or closed
DismissOverlay ==
    /\ game.overlay # "None"
    /\ \E r \in DropBridges(game) :
        game' = [DismissOverlayMsg(game) EXCEPT !.responses = r]
    /\ UNCHANGED rest

\* the snapshots the SimulationWindow reports at the end of a simulation
FinalSnapshots ==
    {[status |-> "Victory0", errors |-> FALSE],
     [status |-> "Defeat", errors |-> FALSE],
     [status |-> "Victory0", errors |-> TRUE]}

SimulationFinished ==
    /\ game.simulation_window_link
    /\ game.teams # << >>
    /\ \E snapshot \in FinalSnapshots, nonce \in Nonces :
        LET g == SimulationFinishedMsg(game, snapshot, nonce)
        IN  IF g.out # << >>
            THEN \E r \in DropBridges(game) :
                    game' = [g EXCEPT !.responses = r (+) BatchResponses(nonce)]
            ELSE game' = g
    /\ UNCHANGED rest

\* a response of a worker arrives; a Snapshot request is answered by the
\* agent of the current batch it was sent to.  The handlers treat the seeds
\* alike, so of the responses that carry one nonce the one of the lowest
\* seed is taken to arrive first
ReceivedBackgroundSimAgentResponse ==
    /\ \E m \in BagToSet(game.responses), running \in BOOLEAN :
        /\ \A o \in BagToSet(game.responses) : o.nonce = m.nonce => o.seed >= m.seed
        /\ LET g == ReceivedBackgroundSimAgentResponseMsg(
                        game, [nonce |-> m.nonce, running |-> running], m.seed)
               answered == IF g.out # << >> /\ g.out[1].op = "Request::Snapshot"
                           THEN SetToBag({g.out[1].arg}) ELSE EmptyBag
           IN  game' = [g EXCEPT !.responses =
                          (game.responses (-) SetToBag({m})) (+) answered]
    /\ UNCHANGED rest

NextBackground ==
    \/ RegisterSimulationWindowLink
    \/ SelectScenario
    \/ SimulationFinished
    \/ ReceivedBackgroundSimAgentResponse
    \/ DismissOverlay

BackgroundSpec == Init /\ [][NextBackground]_vars

NextCompile ==
    \/ RegisterSimulationWindowLink
    \/ SelectScenario
    \/ EditorActionExecute
    \/ CompileFinished
    \/ ShowFeedback
    \/ DismissOverlay

CompileSpec == Init /\ [][NextCompile]_vars

\* The heaps and the stores of a guest that the liveness check samples: a
\* debug text that is or is not UTF-8, alone or with a length that is
\* stored as a fraction and casts to 0
FairHeaps == {hp \in HeapStates : hp.badLine = 0 /\ hp.badText = 0 /\ hp.longText = 0}

FairScribbles ==
    {w \in ScribbleWrites :
        /\ "DebugTextPointer" \in DOMAIN w
        /\ w["DebugTextPointer"] = FromInt(0)
        /\ w["DebugTextLength"] = FromInt(1)
        /\ "Torque" \notin DOMAIN w}

\* A team on the reference module, or on a module that
\* TeamController::create accepts although its SYSTEM_STATE array does not
\* lie in its linear memory
InitFair ==
    /\ ships = << >>
    /\ sim = [ships |-> << >>, tick |-> 0, seed |-> SimSeed]
    /\ mem = [state |-> LocalSystemState_new, heap |-> ZeroedHeap]
    /\ gas = 0
    /\ pc = "idle"
    /\ handles = << >>
    /\ trace = << >>
    /\ errored = {}
    /\ writes = 0
    /\ vm \in {new_team_controller(CodeWasm(b)).val :
                b \in {GoodBytes, [GoodBytes EXCEPT !.state_in_memory = FALSE]}}
    /\ san = NoText
    /\ game = Game_create

\* Every step a team tick can take: the guest stores to the state array and
\* to its heap, burns gas, returns or traps, and the host goes on, panics
\* in write_system_state or is aborted in read_vec.
NextFair ==
    \/ AddShip(MaxShips)
    \/ RemoveShip
    \/ TickBegin
    \/ ShipTickResetTrap
    \/ ShipTickCall
    \/ ShipTickWritePanic
    \/ GuestWrite(TeamWrites)
    \/ GuestScribble(FairHeaps, FairScribbles)
    \/ GuestBurn
    \/ ShipTickReturn
    \/ ShipTickAbort
    \/ ShipTickTrap
    \/ TickEnd

\* A team tick runs on one thread from its call to its return.  The host
\* code between two guest calls runs on: it calls the guest or panics in
\* write_system_state (ShipTickCall, ShipTickWritePanic), or it returns
\* (TickEnd).  The guest keeps executing: unless it returns it takes another
\* turn, which debits gas, or it traps.  A host that has panicked or was
\* aborted takes no further step.
FairSpec ==
    /\ InitFair /\ [][NextFair]_vars
    /\ WF_vars(ShipTickCall \/ ShipTickWritePanic)
    /\ WF_vars(GuestBurn \/ ShipTickTrap)
    /\ WF_vars(TickEnd)

(***************************************************************************)
(* Properties                                                              *)
(***************************************************************************)
\* the events the step appends to the trace
NewEvents ==
    IF Len(trace') <= Len(trace) THEN << >>
    ELSE SubSeq(trace', Len(trace) + 1, Len(trace'))

\* the step is a ship's tick returning Err to TeamController::tick
ShipFailed(h) ==
    /\ NewEvents # << >>
    /\ NewEvents[Len(NewEvents)].op = "team_explode"
    /\ NewEvents[Len(NewEvents)].h = h

\* the step calls into the guest for the controller of h
Invoked(h) ==
    \E i \in DOMAIN NewEvents :
        /\ NewEvents[i].op \in {"reset_gas", "export_tick_ship"}
        /\ NewEvents[i].h = h

\* positions of the trace where ShipController::tick was entered for h
Attempts(tr, h) == {i \in DOMAIN tr : tr[i].op = "reset_gas" /\ tr[i].h = h}

IsResetGas(e) == e.op = "reset_gas"
IsTickShip(e) == e.op = "export_tick_ship"

\* the ships entered so far in the team tick, and the export_tick_ship calls
Visited == [i \in DOMAIN SelectSeq(trace, IsResetGas) |-> SelectSeq(trace, IsResetGas)[i].h]
TickCalls == SelectSeq(trace, IsTickShip)

InTick == pc \in {"loop", "guest"}

FailureExplodesOnly(h) ==
    /\ sim'.ships[h].exploded
    /\ \A g \in (DOMAIN sim.ships) \ {h} : sim'.ships[g] = sim.ships[g]

\* C1: when a ship's tick returns an error, the simulation is told to explode
\* that ship and no other, and the team tick goes on: when it returns, every
\* ship of the map has been ticked exactly once, and a ship is exploded in a
\* step only by its own failure or its own Explode slot.
C1_FailureIsolated ==
    [][ /\ \A h \in DOMAIN ships : ShipFailed(h) => FailureExplodesOnly(h)
        /\ pc' = "done" =>
             \A h \in DOMAIN ships' : Cardinality(Attempts(trace', h)) = 1
        /\ \A h \in (DOMAIN sim.ships) \cap (DOMAIN sim'.ships) :
             (sim'.ships[h].exploded /\ ~sim.ships[h].exploded) =>
                \/ ShipFailed(h)
                \/ \E i \in DOMAIN NewEvents :
                      NewEvents[i].op = "explode" /\ NewEvents[i].h = h
      ]_vars

\* a team tick has returned in which one ship failed and a ship after it was
\* ticked and is intact
W_C1 ==
    /\ pc = "done"
    /\ \E i, j \in DOMAIN trace :
        /\ i < j
        /\ trace[i].op = "team_explode"
        /\ trace[j].op = "Ok"
        /\ trace[j].h # trace[i].h
        /\ ~sim.ships[trace[j].h].exploded

\* C2: when a ship's tick fails, that ship is exploded and the others are
\* not, and no later team tick calls into the guest (reset_gas,
\* export_tick_ship) for a ship whose tick has failed.  TeamController::tick
\* leaves the controller of the failed ship in the map, so the next tick
\* enters it again unless remove_ship has been called for it in between.
C2_Original ==
    [][ /\ \A h \in DOMAIN ships : ShipFailed(h) => FailureExplodesOnly(h)
        /\ \A h \in errored : ~Invoked(h)
      ]_vars

\* the handles of S in ascending index order
Ascending(S) ==
    CHOOSE o \in KeyOrders(S) :
        \A i, j \in DOMAIN o : i < j => o[i].index < o[j].index

\* C3: the export_tick_ship calls of a team tick are in strictly ascending
\* index order, and the visiting order is the ascending order of the set of
\* handles, whatever order the map yields them in.
C3_AscendingIndexOrder ==
    /\ \A i, j \in DOMAIN TickCalls : i < j => TickCalls[i].k < TickCalls[j].k
    /\ (InTick \/ pc = "done") =>
          Visited \o (IF pc = "guest" THEN Tail(handles) ELSE handles)
            = Ascending(DOMAIN ships)

\* the second tick of a team of two ships has returned, both called
W_C3 ==
    /\ pc = "done"
    /\ sim.tick = 2
    /\ Len(TickCalls) = 2

ApplyOps == {"accelerate", "torque", "aim", "fire", "set_heading", "set_width",
             "set_min_distance", "set_max_distance", "activate_ability",
             "explode", "set_channel", "set_sent"}
DebugOps == {"emit_debug_text", "emit_debug_lines", "emit_drawn_text"}

StepRank(op) ==
    CASE op = "reset_gas" -> 1
      [] op = "generate_system_state" -> 2
      [] op = "write_system_state" -> 3
      [] op = "export_tick_ship" -> 4
      [] op = "read_system_state" -> 5
      [] op \in ApplyOps -> 6
      [] op = "emit_debug_text" -> 7
      [] op = "emit_debug_lines" -> 8
      [] op = "emit_drawn_text" -> 9
      [] op = "Ok" -> 10
      [] OTHER -> 0

\* the steps 1..4 stand right before position i, for the ship of position i
PrologueBefore(i) ==
    /\ i >= 4
    /\ trace[i - 3].op = "reset_gas" /\ trace[i - 3].k = GAS_PER_TICK
    /\ trace[i - 2].op = "generate_system_state"
    /\ trace[i - 1].op = "write_system_state"
    /\ \A d \in 1..3 : trace[i - d].h = trace[i].h
    /\ trace[i].k = trace[i].h.index

\* from the call at position i to the Ok at position j: one ship, the read
\* first, then the apply calls, then the debug output in its order
EpilogueBetween(i, j) ==
    /\ trace[i + 1].op = "read_system_state"
    /\ \A m \in i..j : trace[m].h = trace[j].h
    /\ \A m \in i..(j - 1) :
          /\ StepRank(trace[m].op) > 0
          /\ StepRank(trace[m].op) <= StepRank(trace[m + 1].op)
          /\ StepRank(trace[m].op) = StepRank(trace[m + 1].op)
                => trace[m].op \in ApplyOps

C4_TraceOrder ==
    /\ \A i \in DOMAIN trace : trace[i].op = "export_tick_ship" => PrologueBefore(i)
    /\ \A j \in DOMAIN trace : trace[j].op = "Ok" =>
          \E i \in 1..(j - 1) :
              /\ trace[i].op = "export_tick_ship"
              /\ EpilogueBetween(i, j)

\* C4: every ship tick makes its calls in the fixed order reset_gas(GAS_PER_TICK),
\* generate, write, export_tick_ship(index), read, apply, debug text, lines,
\* drawn text, with nothing of another ship in between, and the guest is
\* entered with the full gas budget.
C4_StepOrderAndFullGas ==
    /\ []C4_TraceOrder
    /\ [][ (pc = "loop" /\ pc' = "guest") => gas' = GAS_PER_TICK ]_vars

\* a ship is entered with the full budget after an earlier ship of the same
\* tick has spent gas on a store that fired a weapon
W_C4 ==
    /\ pc = "guest"
    /\ gas = GAS_PER_TICK
    /\ \E i \in DOMAIN trace : trace[i].op = "fire"

ErrEvent(h) == Ev("Ship runtime error", h, 0, << >>)

\* C5: a trap of reset_gas or export_tick_ship makes the tick return a ship
\* runtime error; in that step the local state is not replaced by guest memory,
\* the simulation receives nothing but the team's explode, nothing is emitted,
\* and after a trap of reset_gas export_tick_ship is not called.
C5_TrapAppliesNothing ==
    [][ \A h \in DOMAIN ships : ShipFailed(h) =>
          /\ ships' = ships
          /\ sim' = SimExplode(sim, h)
          /\ \/ /\ pc = "guest"
                /\ NewEvents = << ErrEvent(h), Ev("team_explode", h, 0, << >>) >>
             \/ /\ pc = "loop"
                /\ NewEvents = << Ev("reset_gas", h, GAS_PER_TICK, << >>),
                                  ErrEvent(h), Ev("team_explode", h, 0, << >>) >>
      ]_vars

\* export_tick_ship trapped after the guest had stored a command
W_C5 ==
    /\ pc = "loop"
    /\ Len(trace) >= 3
    /\ trace[Len(trace)].op = "team_explode"
    /\ trace[Len(trace) - 2].op = "export_tick_ship"
    /\ \E s \in {"Fire1", "Explode"} : GtZero(mem.state[s])

\* C6: a team tick that has been called returns, whatever the guest does, and
\* when it returns every ship of the map has been entered exactly once (never
\* more than once on the way).  A guest that loops is stopped by the gas trap
\* and the loop goes on; a tick in which the host panics in
\* write_system_state or is aborted in read_vec does not return.
C6_Original ==
    /\ InTick ~> (pc = "done")
    /\ [](\A h \in DOMAIN ships : Cardinality(Attempts(trace, h)) <= 1)
    /\ [](pc = "done" => \A h \in DOMAIN ships : Cardinality(Attempts(trace, h)) = 1)

\* the step is a ship's tick returning Ok to TeamController::tick
ShipReturned(h) ==
    /\ NewEvents # << >>
    /\ NewEvents[Len(NewEvents)].op = "Ok"
    /\ NewEvents[Len(NewEvents)].h = h

\* the last ship tick of the trace returned Ok
LastReturned ==
    /\ pc = "loop"
    /\ trace # << >>
    /\ trace[Len(trace)].op = "Ok"

FireSlots == {"Fire0", "Fire1", "Fire2", "Fire3"}
NonFinite == {NaN, PosInf, NegInf}

\* C7 as stated: after apply_system_state has returned, the eight command
\* slots of the local state all hold 0.0.
C7_Original ==
    LastReturned =>
        \A s \in CommandSlots : ships[trace[Len(trace)].h][s] = Zero

\* C7 amended: after apply_system_state, AccelerateX, AccelerateY and Torque
\* hold 0.0 whatever the guest left; each Fire_k and Explode holds 0.0 if the
\* guest left a finite value > 0 and otherwise keeps the value the guest left
\* (zero, negative, NaN, infinite); none of the eight reads as > 0.
C7_CommandSlotsAfterApply ==
    [][ \A h \in DOMAIN ships : ShipReturned(h) =>
          /\ \A s \in {"AccelerateX", "AccelerateY", "Torque"} : ships'[h][s] = Zero
          /\ \A s \in FireSlots \cup {"Explode"} :
                ships'[h][s] = IF GtZero(get(mem.state, s)) THEN Zero ELSE mem.state[s]
          /\ \A s \in CommandSlots : ~GtZero(get(ships'[h], s))
      ]_vars

\* a weapon was fired and its slot is 0.0 again, while Aim keeps the guest's
\* value
W_C7 ==
    /\ LastReturned
    /\ \E i \in DOMAIN trace :
        /\ trace[i].op = "fire"
        /\ mem.state[FireOf(trace[i].k)] = One
        /\ ships[trace[i].h][FireOf(trace[i].k)] = Zero

CommandEvents(evs) == {i \in DOMAIN evs : evs[i].op \in {"aim", "fire", "explode"}}

ZeroThrust(evs) ==
    \A i \in DOMAIN evs :
        /\ evs[i].op = "accelerate" => evs[i].args = <<Zero, Zero>>
        /\ evs[i].op = "torque" => evs[i].args = <<Zero>>

\* C8: in a tick in which the guest returns without having stored anything
\* (its memory is what the host wrote), no weapon group is fired, the ship
\* is not exploded by the slot, and the acceleration and torque passed to
\* the simulation are zero, whatever commands earlier ticks carried.
C8_NoDuplicateCommands ==
    [][ \A h \in DOMAIN ships : (ShipReturned(h) /\ mem.state = ships[h]) =>
          /\ CommandEvents(NewEvents) = {}
          /\ ZeroThrust(NewEvents)
      ]_vars

\* the second tick of a ship that exploded itself through the Explode slot
\* in the first: the guest stored nothing and no explode is applied
W_C8 ==
    /\ LastReturned
    /\ sim.tick = 1
    /\ writes = 1
    /\ LET h == trace[Len(trace)].h
       IN  /\ sim.ships[h].exploded
           /\ h \notin errored
           /\ mem.state = ships[h]
           /\ CommandEvents(trace) = {}

\* no store of the guest has happened so far
GuestIdle == writes = 0 /\ writes' = 0

\* C9 as stated: after a tick with a guest that does nothing, the simulation
\* has received no accelerate, torque, fire or explode call for the ship,
\* the ship's data (its radio channel) is as before, and nothing is emitted.
C9_Original ==
    [][ \A h \in DOMAIN ships : (ShipReturned(h) /\ GuestIdle) =>
          /\ \A i \in DOMAIN NewEvents :
                NewEvents[i].op \notin {"accelerate", "torque", "fire", "explode"} \cup DebugOps
          /\ sim'.ships[h] = sim.ships[h]
      ]_vars

\* C9 amended: after a tick with a guest that does nothing, the simulation
\* has received accelerate with the zero vector and torque(0.0), and no aim,
\* fire, activate_ability, explode or set_sent; the radar and every radio
\* channel are set to the values they had, so the ship's data is as before;
\* nothing is emitted.
C9_NoopGuestTick ==
    [][ \A h \in DOMAIN ships : (ShipReturned(h) /\ GuestIdle) =>
          /\ ZeroThrust(NewEvents)
          /\ \A i \in DOMAIN NewEvents :
                NewEvents[i].op \notin {"aim", "fire", "activate_ability",
                                        "explode", "set_sent"} \cup DebugOps
          /\ sim'.ships[h] = sim.ships[h]
      ]_vars

\* the first tick of a fighter with a radio on channel 7 has returned, the
\* guest having stored nothing
W_C9 ==
    /\ LastReturned
    /\ writes = 0
    /\ sim.tick = 0
    /\ LET h == trace[Len(trace)].h
       IN  /\ Len(sim.ships[h].radios) = 1
           /\ sim.ships[h].radios[1].channel = 7
           /\ \E i \in DOMAIN trace :
                 trace[i].op = "set_channel" /\ trace[i].args = <<FromInt(7)>>

\* C10: no mutator call the simulation receives from apply_system_state
\* carries a NaN or an infinite argument, and a slot holding NaN or an
\* infinity reads as 0.0 through get, any other slot as stored.
C10_FiniteArguments ==
    /\ \A i \in DOMAIN trace : trace[i].op \in ApplyOps =>
          \A a \in DOMAIN trace[i].args : is_finite(trace[i].args[a])
    /\ \A h \in DOMAIN ships : \A s \in Slots :
          get(ships[h], s) = IF ships[h][s] \in NonFinite THEN Zero ELSE ships[h][s]

\* a weapon was aimed while its Aim slot held NaN or an infinity: the
\* simulation received 0.0
W_C10 ==
    /\ LastReturned
    /\ \E i \in DOMAIN trace :
        /\ trace[i].op = "aim"
        /\ ships[trace[i].h][AimOf(trace[i].k)] \in NonFinite
        /\ trace[i].args = <<Zero>>

\* the aim and fire calls apply_system_state makes for group k when the state
\* read back is st
WeaponCalls(st, h, k) ==
    IF GtZero(get(st, FireOf(k)))
    THEN << Ev("aim", h, k, <<get(st, AimOf(k))>>), Ev("fire", h, k, << >>) >>
    ELSE << >>

IsWeaponCall(e) == e.op \in {"aim", "fire"}

\* C11: in apply_system_state the weapon groups are taken in ascending order;
\* a group whose Fire slot reads > 0 gets aim(k, Aim_k) immediately followed
\* by fire(k) and its Fire slot is 0.0 afterwards; a group whose Fire slot
\* does not read > 0 gets neither call.
C11_AimThenFire ==
    [][ \A h \in DOMAIN ships : ShipReturned(h) =>
          /\ SelectSeq(NewEvents, IsWeaponCall)
                = WeaponCalls(mem.state, h, 0) \o WeaponCalls(mem.state, h, 1)
                    \o WeaponCalls(mem.state, h, 2) \o WeaponCalls(mem.state, h, 3)
          /\ \A i \in DOMAIN NewEvents : NewEvents[i].op = "aim" =>
                /\ i < Len(NewEvents)
                /\ NewEvents[i + 1] = Ev("fire", h, NewEvents[i].k, << >>)
          /\ \A k \in 0..3 : GtZero(get(mem.state, FireOf(k))) =>
                ships'[h][FireOf(k)] = Zero
      ]_vars

\* two groups were fired in one tick with different aims: the lower group's
\* aim and fire come first, and both Fire slots are 0.0 again
W_C11 ==
    /\ LastReturned
    /\ \E i, j \in DOMAIN trace :
        /\ i + 1 < j
        /\ trace[i].op = "aim" /\ trace[i + 1].op = "fire"
        /\ trace[j].op = "aim" /\ trace[j + 1].op = "fire"
        /\ trace[i].k < trace[j].k
        /\ trace[i].args # trace[j].args
        /\ ships[trace[i].h][FireOf(trace[i].k)] = Zero
        /\ ships[trace[j].h][FireOf(trace[j].k)] = Zero
        /\ mem.state[FireOf(trace[j].k)] = HalfVal

\* the events of evs with the given op
EventsOf(evs, op) == {i \in DOMAIN evs : evs[i].op = op}

\* the batch the slots len and ptr of st describe lies in guest memory
BatchInMemory(st, ptr, len, size) ==
    AsU32(get(st, ptr)) + AsU32(get(st, len)) * size <= MemBytes

LinesFinite(memv, n) ==
    \A j \in 1..n :
        \A c \in {LineAt(memv, j).x0, LineAt(memv, j).y0,
                  LineAt(memv, j).x1, LineAt(memv, j).y1} : c \notin NonFinite

\* the conditions under which the batch of lines is emitted
LinesAccepted(memv) ==
    /\ GtZero(get(memv.state, "DebugLinesLength"))
    /\ AsU32(get(memv.state, "DebugLinesLength")) <= 128
    /\ BatchInMemory(memv.state, "DebugLinesPointer", "DebugLinesLength", LineBytes)
    /\ LinesFinite(memv, AsU32(get(memv.state, "DebugLinesLength")))

\* C12: emit_debug_lines is called in a tick only if the DebugLinesLength
\* slot is > 0 and at most 128, the batch lies in guest memory and every
\* coordinate of every line is finite, and then it is called once with the
\* whole batch; a length of 129, or one NaN coordinate anywhere in the batch,
\* emits no line.
C12_DebugLinesAllOrNothing ==
    [][ \A h \in DOMAIN ships : ShipReturned(h) =>
          /\ Cardinality(EventsOf(NewEvents, "emit_debug_lines")) <= 1
          /\ EventsOf(NewEvents, "emit_debug_lines") # {} <=> LinesAccepted(mem)
          /\ \A i \in EventsOf(NewEvents, "emit_debug_lines") :
                NewEvents[i].k = AsU32(get(mem.state, "DebugLinesLength"))
          /\ AsU32(get(mem.state, "DebugLinesLength")) = 129 =>
                EventsOf(NewEvents, "emit_debug_lines") = {}
      ]_vars

\* a batch of 128 lines with finite coordinates has been emitted whole
W_C12 ==
    /\ LastReturned
    /\ mem.state["DebugLinesLength"] = FromInt(128)
    /\ \E i \in DOMAIN trace : trace[i].op = "emit_debug_lines" /\ trace[i].k = 128

TextsValid(memv, n) ==
    \A j \in 1..n :
        /\ TextAt(memv, j).x \notin NonFinite
        /\ TextAt(memv, j).y \notin NonFinite
        /\ TextAt(memv, j).length <= TextCap

TextsAccepted(memv) ==
    /\ GtZero(get(memv.state, "DrawnTextLength"))
    /\ AsU32(get(memv.state, "DrawnTextLength")) <= 128
    /\ BatchInMemory(memv.state, "DrawnTextPointer", "DrawnTextLength", TextBytes)
    /\ TextsValid(memv, AsU32(get(memv.state, "DrawnTextLength")))

\* C13: emit_drawn_text is called in a tick only if the DrawnTextLength slot
\* is > 0 and at most 128, the batch lies in guest memory and every Text of
\* it has finite x and y and a length not above the capacity of its buffer,
\* and then it is called once with the whole batch; one offending Text drops
\* the batch.
C13_DrawnTextAllOrNothing ==
    [][ \A h \in DOMAIN ships : ShipReturned(h) =>
          /\ Cardinality(EventsOf(NewEvents, "emit_drawn_text")) <= 1
          /\ EventsOf(NewEvents, "emit_drawn_text") # {} <=> TextsAccepted(mem)
          /\ \A i \in EventsOf(NewEvents, "emit_drawn_text") :
                NewEvents[i].k = AsU32(get(mem.state, "DrawnTextLength"))
      ]_vars

\* a batch of 128 texts in guest memory whose second text has a length above
\* its buffer: the tick returned and no text was emitted
W_C13 ==
    /\ LastReturned
    /\ mem.state["DrawnTextLength"] = FromInt(128)
    /\ mem.state["DrawnTextPointer"] = Zero
    /\ mem.heap.longText = 2
    /\ EventsOf(trace, "emit_drawn_text") = {}

\* the step is export_tick_ship returning for ship h: the memory is read back
GuestReturned(h) ==
    /\ pc = "guest"
    /\ Head(handles) = h
    /\ NewEvents # << >>
    /\ NewEvents[1].op = "read_system_state"

\* debug data the guest left that the host cannot use
BadDebugText(memv) ==
    /\ GtZero(get(memv.state, "DebugTextLength"))
    /\ \/ AsU32(get(memv.state, "DebugTextPointer"))
            + AsU32(get(memv.state, "DebugTextLength")) > MemBytes
       \/ /\ AsU32(get(memv.state, "DebugTextLength")) > 0
          /\ ~memv.heap.utf8

BadDebugLines(memv) ==
    GtZero(get(memv.state, "DebugLinesLength")) /\ ~LinesAccepted(memv)

BadDrawnText(memv) ==
    GtZero(get(memv.state, "DrawnTextLength")) /\ ~TextsAccepted(memv)

\* the state array with no debug output announced
WithoutDebug(st) == [s \in Slots |-> IF s \in DebugSlots THEN Zero ELSE st[s]]

IsApplyCall(e) == e.op \in ApplyOps

\* C14: when the guest returns having left a debug pointer or length out of
\* memory, a debug text that is not UTF-8, an invalid line or text, or a batch
\* over 128, that piece of debug output is not emitted, the tick returns Ok,
\* the ship is not exploded for it, and the commands applied, the simulation
\* and the command slots are what they are when no debug output is announced.
C14_Original ==
    [][ \A h \in DOMAIN ships :
          (GuestReturned(h) /\ (BadDebugText(mem) \/ BadDebugLines(mem) \/ BadDrawnText(mem))) =>
            LET quiet == apply_system_state(sim, h, WithoutDebug(mem.state))
            IN  /\ BadDebugText(mem) => EventsOf(NewEvents, "emit_debug_text") = {}
                /\ BadDebugLines(mem) => EventsOf(NewEvents, "emit_debug_lines") = {}
                /\ BadDrawnText(mem) => EventsOf(NewEvents, "emit_drawn_text") = {}
                /\ NewEvents[Len(NewEvents)].op = "Ok"
                /\ errored' = errored
                /\ EventsOf(NewEvents, "team_explode") = {}
                /\ SelectSeq(NewEvents, IsApplyCall) = quiet.ev
                /\ sim' = quiet.sim
                /\ \A s \in Slots \ DebugSlots : ships'[h][s] = quiet.state[s]
      ]_vars

\* a guest fired a weapon and announced a debug text that is not UTF-8: the
\* tick returned Ok, the weapon was fired and no text was emitted
W_C14 ==
    /\ LastReturned
    /\ BadDebugText(mem)
    /\ ~mem.heap.utf8
    /\ EventsOf(trace, "fire") # {}
    /\ EventsOf(trace, "emit_debug_text") = {}
    /\ trace[Len(trace)].h \notin errored

\* C15: the store is never borrowed mutably for a guest call (reset_gas,
\* export_tick_ship, export_delete_ship) while a Ref or a memory view is
\* alive, and no borrow is refused: between the operations no Ref, RefMut or
\* view is held, and while the guest runs only the RefMut of its call is.
C15_NoViewAcrossGuestCall ==
    /\ ~vm.store.failed
    /\ ~vm.store.overlapped
    /\ vm.store.views = 0
    /\ vm.store.borrow = IF pc = "guest" THEN -1 ELSE 0

\* a ship was deleted after a tick in which the guest announced debug
\* output that the host read from its memory
W_C15 ==
    /\ pc = "idle"
    /\ sim.tick >= 1
    /\ writes = 1
    /\ trace # << >>
    /\ trace[1].op = "export_delete_ship"
    /\ \E h \in DOMAIN ships : DebugReads(ships[h]) # << >>

\* C16 as stated: when the state array cannot be written into guest memory,
\* the ship's tick returns a ship runtime error, the team explodes that ship
\* and goes on with the next handle; the host is not aborted.
C16_Original ==
    [][ (pc = "loop" /\ handles # << >> /\ ~vm.module.state_in_memory) =>
          /\ pc' = "loop"
          /\ handles' = Tail(handles)
          /\ Head(handles) \in errored'
          /\ sim'.ships[Head(handles)].exploded
          /\ EventsOf(NewEvents, "Ship runtime error") # {}
      ]_vars

\* the defects of the bytes of a Code for which create is to return Err
Defective(code) ==
    CASE code.tag = "Wasm" ->
            \/ ~code.bytes.accepted \/ ~code.bytes.valid \/ ~code.bytes.links
            \/ ~(CompilerExports \subseteq code.bytes.exports)
      [] code.tag = "Precompiled" ->
            \/ ~code.bytes.valid \/ ~code.bytes.links
            \/ ~(RequiredExports \subseteq code.bytes.exports)
      [] OTHER -> FALSE

\* the step is a call of new_team_controller or TeamController::create
Created == pc = "new" /\ pc' # "new" /\ EventsOf(NewEvents, "Module::serialize") = {}

\* C17 as stated: create returns Ok only if the instantiated module has the
\* five required exports; if the limiter rejects the bytes, compilation or
\* instantiation fails or a required export is missing, create returns Err
\* and so does TeamController::create; a controller exists only with a
\* fully resolved VM.
C17_Original ==
    [][ (Created /\ vm.code.tag \in {"Wasm", "Precompiled"}) =>
          /\ pc' = "idle" => /\ vm'.status = "Ok"
                             /\ RequiredExports \subseteq vm'.module.exports
          /\ Defective(vm.code) => pc' = "failed" /\ vm'.status = "Err"
      ]_vars

\* C18: a Code::Wasm is compiled only after limiter::rewrite, and what is
\* compiled is what the limiter returned; a limiter error ends create
\* before any compilation; a Code::Precompiled is deserialized without a
\* call of the limiter, precompile having rewritten the bytes before it
\* compiled and serialized them; the module of every VM has been through
\* the limiter exactly once.
C18_LimiterBeforeCompile ==
    /\ [][ /\ \A i \in DOMAIN NewEvents : NewEvents[i].op = "Module::new" =>
                /\ i > 1
                /\ NewEvents[i - 1].op = "limiter::rewrite"
                /\ NewEvents[i].k = NewEvents[i - 1].k + 1
           /\ (pc = "new" /\ vm.code.tag = "Wasm" /\ ~vm.code.bytes.accepted /\ pc' # "new") =>
                /\ pc' = "failed"
                /\ \A i \in DOMAIN NewEvents : NewEvents[i].op = "limiter::rewrite"
           /\ (pc = "new" /\ vm.code.tag = "Precompiled") =>
                /\ EventsOf(NewEvents, "limiter::rewrite") = {}
                /\ EventsOf(NewEvents, "Module::new") = {}
           /\ \A i \in EventsOf(NewEvents, "Module::serialize") \cup
                        EventsOf(NewEvents, "Instance::new") : NewEvents[i].k = 1
         ]_vars
    /\ [](vm.status = "Ok" => vm.module.metered = 1)

\* a team was created from the Code::Precompiled that precompile returned:
\* one call of the limiter, before the compilation, none at create
W_C18 ==
    /\ pc = "idle"
    /\ vm.status = "Ok"
    /\ Len(trace) = 5
    /\ trace[1].op = "limiter::rewrite"
    /\ trace[2].op = "Module::new"
    /\ trace[3].op = "Module::serialize"
    /\ trace[4].op = "Module::deserialize"
    /\ trace[5].op = "Instance::new"

\* C19: new_team_controller and TeamController::create (WasmVm::create)
\* given Code::None or Code::Source panic, they do not return Err, and only
\* Wasm, Precompiled and Builtin lead to a controller.
C19_OtherVariantsPanic ==
    [][ Created =>
          /\ vm.code.tag \in {"None", "Source"} => pc' = "panicked" /\ vm'.status = "panic"
          /\ pc' = "idle" => vm.code.tag \in {"Wasm", "Precompiled", "Builtin"}
      ]_vars

\* the host has panicked on a Code::Source
W_C19 ==
    /\ pc = "panicked"
    /\ vm.status = "panic"
    /\ vm.code.tag = "Source"

\* C20: when export_tick_ship returns without the guest having run a store
\* or a loop turn, the state read back equals slot for slot the state the
\* host wrote, and after the tick the radar's heading, width and distances
\* and every radio's channel are what they were before it.
C20_RoundTrip ==
    [][ \A h \in DOMAIN ships : (GuestReturned(h) /\ gas = GAS_PER_TICK) =>
          /\ read_system_state(mem) = ships[h]
          /\ sim'.ships[h].radar = sim.ships[h].radar
          /\ \A i \in DOMAIN sim.ships[h].radios :
                sim'.ships[h].radios[i].channel = sim.ships[h].radios[i].channel
      ]_vars

\* a fighter with a radar and a radio on channel 7 was ticked after another
\* ship of the team whose guest had stored a command in the shared memory
W_C20 ==
    /\ LastReturned
    /\ gas = GAS_PER_TICK
    /\ writes = 1
    /\ LET h == trace[Len(trace)].h
       IN  /\ sim.ships[h].radar.present
           /\ sim.ships[h].radar.width # Zero
           /\ Len(sim.ships[h].radios) = 1
           /\ sim.ships[h].radios[1].channel = 7
           /\ \E i \in DOMAIN trace : trace[i].op = "set_channel" /\ trace[i].h = h
           /\ \E i \in DOMAIN trace : trace[i].op = "fire" /\ trace[i].h # h

(***************************************************************************)
(* Abilities                                                               *)
(***************************************************************************)
\* the abilities a ship can activate
Activatable == {"Boost", "ShapedCharge", "Decoy", "Shield"}

\* a stored double, NaN and the infinities read as 0.0, cut to a u32
Truncated(v) == IF v.k = "fin" /\ v.v >= 0 THEN v.v \div Den ELSE 0

IsAbilityCall(e) == e.op = "activate_ability"

\* C21: when the state is read back, activate_ability is called exactly when
\* the ActivateAbility slot, NaN and infinities read as 0.0 and the value cut
\* to a u32, is the code of Boost, ShapedCharge, Decoy or Shield, once and
\* with that ability; for the code of None and every other value it is not
\* called.
C21_AbilityActivation ==
    [][ \A h \in DOMAIN ships : GuestReturned(h) =>
          LET v == Truncated(mem.state["ActivateAbility"])
              calls == SelectSeq(NewEvents, IsAbilityCall)
          IN  IF \E a \in Activatable : v = AbilityCode(a)
              THEN calls = << Ev("activate_ability", h, v, << >>) >>
              ELSE calls = << >>
      ]_vars

\* the guest stored 4.5 in ActivateAbility and the shield was activated
W_C21 ==
    /\ LastReturned
    /\ mem.state["ActivateAbility"] = Fin(4 * Den + 1)
    /\ \E i \in DOMAIN trace :
        trace[i].op = "activate_ability" /\ trace[i].k = AbilityCode("Shield")

(***************************************************************************)
(* Radios                                                                  *)
(***************************************************************************)
\* a stored double as LocalSystemState::get returns it
Sane(v) == IF v.k = "fin" THEN v ELSE Zero

\* the positions of the set_sent calls for radio i
SentOn(evs, i) == {j \in DOMAIN evs : evs[j].op = "set_sent" /\ evs[j].k = i}

\* the step hands the state of h to the guest
GuestCalled(h) == pc = "loop" /\ pc' = "guest" /\ Head(handles) = h

\* C22: for every radio i of a ship, the send slot is 0 in the state handed
\* to the guest; when the state is read back the radio's channel is set from
\* the channel slot, one message made of the four data slots is published
\* if and only if the send slot is non-zero, and the receive slot is left as
\* read; a guest that leaves the send slot alone publishes nothing.
C22_RadioSendIsOneShot ==
    [][ \A h \in DOMAIN ships : \A i \in 0..1 : i < Len(sim.ships[h].radios) =>
          LET idxs == radio_indices(i)
              sent == SentOn(NewEvents, i)
          IN  /\ GuestCalled(h) =>
                    /\ ships'[h][idxs.send] = Zero
                    /\ mem'.state[idxs.send] = Zero
              /\ GuestReturned(h) =>
                    /\ sim'.ships[h].radios[i + 1].channel
                          = Truncated(mem.state[idxs.channel])
                    /\ (sent # {}) <=> (Sane(mem.state[idxs.send]) # Zero)
                    /\ Cardinality(sent) <= 1
                    /\ \A j \in sent :
                          NewEvents[j].args = [d \in 1..4 |-> Sane(mem.state[idxs.data[d]])]
                    /\ ships'[h][idxs.receive] = mem.state[idxs.receive]
                    /\ (mem.state[idxs.send] = ships[h][idxs.send]) => sent = {}
      ]_vars

\* a cruiser sent on its second radio in the first tick, on channel 3, and
\* returned from the second tick without a store: nothing is published in
\* the second tick
W_C22 ==
    /\ LastReturned
    /\ sim.tick = 1
    /\ writes = 1
    /\ EventsOf(trace, "set_sent") = {}
    /\ \E h \in DOMAIN ships :
        /\ Len(sim.ships[h].radios) = 2
        /\ sim.ships[h].radios[2].channel = 3
        /\ ships[h]["Radio0Receive"] = One

(***************************************************************************)
(* remove_ship and delete                                                  *)
(***************************************************************************)
\* the step is the simulation dropping ships and telling the team
Dropped == (DOMAIN sim.ships) \ (DOMAIN sim'.ships)

IsGuestCall(e) == e.op \in {"reset_gas", "export_tick_ship", "export_delete_ship"}

\* the step is a remove_ship that adds no ship and is not part of a tick
RemoveStep ==
    /\ Idle
    /\ pc' = "idle"
    /\ sim'.tick = sim.tick
    /\ DOMAIN sim'.ships \subseteq DOMAIN sim.ships

\* C23: remove_ship makes no guest call, takes exactly the controller of its
\* handle out of the map, and leaves the VM, the guest's memory and gas and
\* every other controller's local state as they are; for a handle that is
\* not in the map nothing changes; and a tick calls the guest only for
\* handles that are in the map, so not for a removed one until it is added
\* again.
C23_RemoveShipFrame ==
    [][ /\ RemoveStep =>
              /\ Cardinality(Dropped) <= 1
              /\ DOMAIN ships' = (DOMAIN ships) \ Dropped
              /\ \A h \in DOMAIN ships' : ships'[h] = ships[h]
              /\ Dropped = {} => ships' = ships
              /\ NewEvents = << >>
              /\ vm' = vm /\ mem' = mem /\ gas' = gas
        /\ \A i \in DOMAIN NewEvents :
              IsGuestCall(NewEvents[i]) =>
                /\ NewEvents[i].h \in DOMAIN ships
                /\ NewEvents[i].h \in DOMAIN ships'
      ]_vars

\* two ships were ticked and one of them was removed afterwards; the other
\* one's controller is still in the map
W_C23 ==
    /\ pc = "idle"
    /\ \E h, g \in Handles :
        /\ h \notin DOMAIN ships
        /\ g \in DOMAIN ships
        /\ \E i, j \in DOMAIN trace :
            /\ trace[i] = Ev("export_tick_ship", h, h.index, << >>)
            /\ trace[j] = Ev("export_tick_ship", g, g.index, << >>)
        /\ ships[g]["CurrentTick"] = FromInt(sim.tick - 1)

\* the step is ShipController::delete of the controller of h
Deleted(h) ==
    /\ NewEvents # << >>
    /\ NewEvents[1].op = "export_delete_ship"
    /\ NewEvents[1].h = h

\* C24: delete calls export_delete_ship once, with the index of the ship's
\* handle, and nothing else in the guest; when the call traps a warning is
\* logged and that is all: delete returns, the ship is not exploded, and the
\* local states, the map and the simulation are unchanged.
C24_DeleteOnlyLogs ==
    [][ \A h \in Handles : Deleted(h) =>
          /\ h \in DOMAIN ships
          /\ NewEvents[1].k = h.index
          /\ Cardinality({i \in DOMAIN NewEvents : IsGuestCall(NewEvents[i])}) = 1
          /\ \A i \in DOMAIN NewEvents :
                i > 1 => NewEvents[i] = Ev("warn: Failed to delete ship", h, 0, << >>)
          /\ Len(NewEvents) <= 2
          /\ pc' = "idle"
          /\ ships' = ships /\ sim' = sim /\ errored' = errored
      ]_vars

\* export_delete_ship trapped for the second of two ships after a tick: the
\* warning is logged, and the ship is in the map and not exploded
W_C24 ==
    /\ pc = "idle"
    /\ sim.tick >= 1
    /\ Cardinality(DOMAIN ships) = 2
    /\ Len(trace) = 2
    /\ trace[1].op = "export_delete_ship"
    /\ trace[2].op = "warn: Failed to delete ship"
    /\ trace[1].h \in DOMAIN ships
    /\ trace[1].k = 2
    /\ ~sim.ships[trace[1].h].exploded
    /\ trace[1].h \notin errored

(***************************************************************************)
(* add_ship                                                                *)
(***************************************************************************)
\* the step is add_ship(h, sim)
Added(h) == h \notin DOMAIN ships /\ h \in DOMAIN ships'

\* the radar slot that holds a field of the radar's configuration
RadarField(radar, slot) ==
    CASE slot = "RadarHeading" -> radar.heading
      [] slot = "RadarWidth" -> radar.width
      [] slot = "RadarMinDistance" -> radar.min_distance
      [] slot = "RadarMaxDistance" -> radar.max_distance

\* C25: after add_ship(handle, sim) the map holds a controller for handle on
\* the team's VM; its Seed slot is an integer of 0..2^24-1, the low 24 bits
\* of the hash of (sim.seed, index, generation); its four radar slots are
\* the ship's radar configuration when it has a radar; every other slot is
\* 0.0.  No guest call is made and no other controller changes.
C25_AddShipState ==
    [][ \A h \in Handles : Added(h) =>
          LET st == ships'[h]
              radar == sim'.ships[h].radar
          IN  /\ DOMAIN ships' = (DOMAIN ships) \cup {h}
              /\ \A g \in DOMAIN ships : ships'[g] = ships[g]
              /\ vm' = vm /\ NewEvents = << >>
              /\ st["Seed"].k = "fin"
              /\ st["Seed"].v % Den = 0
              /\ (st["Seed"].v \div Den) \in 0..SeedMask
              /\ \E hash \in {make_seed(sim.seed, h)} :
                    (st["Seed"].v \div Den) = hash[1] + 65536 * (hash[2] % 256)
              /\ \A s \in RadarSlots :
                    st[s] = IF radar.present THEN RadarField(radar, s) ELSE Zero
              /\ \A s \in Slots \ (RadarSlots \cup {"Seed"}) : st[s] = Zero
      ]_vars

\* before the first tick the team holds a fighter, with its radar
\* configuration in the radar slots, and a missile, with zeros there; their
\* seeds differ
W_C25 ==
    /\ pc = "idle"
    /\ sim.tick = 0
    /\ trace = << >>
    /\ \E h, g \in DOMAIN ships :
        /\ sim.ships[h].radar.present
        /\ ships[h]["RadarMaxDistance"] = FromInt(4)
        /\ ~sim.ships[g].radar.present
        /\ \A s \in RadarSlots : ships[g][s] = Zero
        /\ ships[h]["Seed"] # ships[g]["Seed"]
        /\ ships[h]["Seed"] # Zero

(***************************************************************************)
(* Outbound state of a ship without radar                                  *)
(***************************************************************************)
\* the slots generation leaves alone for a ship that has no radar
RadarUntouched == RadarSlots \cup {"RadarContactFound", "RadarContactClass"}

\* C26: when the state of a ship that has no radar and has a tracked target
\* is generated, the contact's position and velocity slots are written from
\* the target, and RadarContactFound, RadarContactClass and the four radar
\* configuration slots keep the values they had before, in the local state
\* and in what the guest is handed.
C26_TargetWithoutRadar ==
    [][ \A h \in DOMAIN ships :
          (GuestCalled(h) /\ ~sim.ships[h].radar.present /\ sim.ships[h].target.present) =>
            LET target == sim.ships[h].target
            IN  /\ ships'[h]["RadarContactPositionX"] = target.position[1]
                /\ ships'[h]["RadarContactPositionY"] = target.position[2]
                /\ ships'[h]["RadarContactVelocityX"] = target.velocity[1]
                /\ ships'[h]["RadarContactVelocityY"] = target.velocity[2]
                /\ \A s \in RadarUntouched : ships'[h][s] = ships[h][s]
                /\ mem'.state = ships'[h]
      ]_vars

\* the guest of a missile stored 1.0 in RadarContactFound in the first tick;
\* in the second tick it is handed the target's position with that 1.0
\* still in the slot
W_C26 ==
    /\ pc = "guest"
    /\ sim.tick = 1
    /\ writes = 1
    /\ LET h == Head(handles)
       IN  /\ ~sim.ships[h].radar.present
           /\ sim.ships[h].target.present
           /\ mem.state["RadarContactFound"] = One
           /\ mem.state["RadarContactPositionX"] = sim.ships[h].target.position[1]
           /\ mem.state["RadarContactPositionX"] # Zero
           /\ gas = GAS_PER_TICK

(***************************************************************************)
(* The sanitizer                                                           *)
(***************************************************************************)
\* check has returned for the text
Checked == san.result # Unchecked
Accepted == san.result.status = "Ok"
Rejected == san.result.status = "Err"

\* the positions at which w occurs in t
Occurrences(t, w) == {i \in 1..Len(t) : StartsAt(t, i, w)}

\* w occurs in t as a whole word
WholeWord(t, w) ==
    \E i \in Occurrences(t, w) : ~WordAt(t, i - 1) /\ ~WordAt(t, i + Len(w))

\* the first token of the attribute opened before position j: the text up to
\* the first whitespace or bracket
RECURSIVE TokenEnd(_, _)
TokenEnd(t, j) ==
    IF j > Len(t) \/ t[j] \in {"[", "]", "(", ")", " ", "\t", "\n"} THEN j - 1
    ELSE TokenEnd(t, j + 1)

AttrToken(t, j) == SubSeq(t, j, TokenEnd(t, j))

\* the allow-list of the specification
AllowedToken(t, j) ==
    \/ AttrToken(t, j) \in {s_derive, s_repr, s_inline, s_test, s_must_use, s_default}
    \/ StartsAt(t, j, s_cfg_test) /\ TokenEnd(t, j + Len(s_cfg_test)) < j + Len(s_cfg_test)

\* the positions after the opening #[ or #![ of the attributes of t
Attributes(t) == {AttrOpen(t, i) : i \in 1..Len(t)} \ {0}

\* C27 (as stated): an attribute is permitted only if its first token, the
\* text after #[ or #![ up to the first whitespace or bracket, is one of
\* derive, repr, inline, cfg(test), test, must_use, default; a text with an
\* attribute whose first token is anything else is rejected.
C27_Original ==
    (Checked /\ \E j \in Attributes(san.text) : ~AllowedToken(san.text, j)) => Rejected

\* the text has none of the macro names and no attribute
Plain(t) ==
    /\ \A k \in DOMAIN Macros : Occurrences(t, Macros[k]) = {}
    /\ \A i \in 1..Len(t) : t[i] # "#"

\* every occurrence of w in t has an identifier character directly before
\* it or directly after it
InsideWords(t, w) ==
    \A i \in Occurrences(t, w) : WordAt(t, i - 1) \/ WordAt(t, i + Len(w))

\* C28 (as stated): a text in which unsafe, static, extern and crate occur
\* only as parts of longer identifiers, with identifier characters directly
\* before or directly after the word, and which has no disallowed attribute,
\* is accepted.
C28_Original ==
    (/\ Checked
     /\ Plain(san.text)
     /\ \A w \in {s_unsafe, s_static, s_extern, s_crate} : InsideWords(san.text, w))
    => Accepted

\* C29: a text in which static occurs as a standalone word whose preceding
\* character is not ', the start of the text included, is rejected; and a
\* text in which every static follows a ' and which has none of the other
\* rejected words is accepted.
C29_StaticUnlessLifetime ==
    Checked =>
      LET t == san.text
      IN  /\ (\E i \in Occurrences(t, s_static) :
                /\ ~WordAt(t, i - 1) /\ ~WordAt(t, i + Len(s_static))
                /\ i = 1 \/ t[i - 1] # "'") => Rejected
          /\ (/\ Plain(t)
              /\ \A k \in DOMAIN Keywords : Occurrences(t, Keywords[k]) = {}
              /\ \A i \in Occurrences(t, s_static) : i > 1 /\ t[i - 1] = "'") => Accepted

\* the text {'static} was accepted
W_C29 ==
    /\ Accepted
    /\ san.text = <<"{", "'">> \o s_static \o <<"}">>

\* C30 (as stated): a text that contains unsafe, extern or crate as a whole
\* word, or one of macro_rules, include, include_bytes, include_str followed
\* by a word boundary or by !, is rejected.
C30_Original ==
    Checked =>
      LET t == san.text
      IN  (\/ \E k \in DOMAIN Keywords : WholeWord(t, Keywords[k])
           \/ \E k \in DOMAIN Macros : \E i \in Occurrences(t, Macros[k]) :
                \/ Boundary(t, i + Len(Macros[k]) - 1)
                \/ StartsAt(t, i + Len(Macros[k]), <<"!">>)) => Rejected

\* C30 (amended): a text that contains unsafe, extern or crate as a whole
\* word, or one of macro_rules, include, include_bytes, include_str starting
\* at a word boundary and followed by a word boundary or by !, is rejected.
C30_ForbiddenTokens ==
    Checked =>
      LET t == san.text
      IN  (\/ \E k \in DOMAIN Keywords : WholeWord(t, Keywords[k])
           \/ \E k \in DOMAIN Macros : \E i \in Occurrences(t, Macros[k]) :
                /\ ~WordAt(t, i - 1)
                /\ ~WordAt(t, i + Len(Macros[k]))) => Rejected

\* }unsafe{ was rejected, and the error names unsafe
W_C30 ==
    /\ Rejected
    /\ san.text = <<"}">> \o s_unsafe \o <<"{">>
    /\ san.result.found = s_unsafe

\* the text has one of the tokens the sanitizer rejects: unsafe, extern or
\* crate as a whole word, a macro name as a token, or a static that ends a
\* word and does not follow a '
ForbiddenToken(t) ==
    \/ \E k \in DOMAIN Keywords : WholeWord(t, Keywords[k])
    \/ \E k \in DOMAIN Macros : WholeWord(t, Macros[k])
    \/ \E i \in Occurrences(t, s_static) :
         /\ ~WordAt(t, i + Len(s_static))
         /\ i = 1 \/ t[i - 1] # "'"

\* C31: a text that has no forbidden token and whose attributes all have an
\* allow-listed head, with arguments or without, is accepted.
C31_AllowedAttributesAccepted ==
    (/\ Checked
     /\ ~ForbiddenToken(san.text)
     /\ \A j \in Attributes(san.text) : AllowedToken(san.text, j)) => Accepted

\* #[repr(u32)] was accepted
W_C31 ==
    /\ Accepted
    /\ san.text = <<"#", "[">> \o s_repr \o s_u32 \o <<"]">>

\* runs of spaces, tabs and newlines
Blanks == {<<" ">>, <<"\t">>, <<"\n">>, <<" ", " ">>, <<"\n", "\t">>, <<"\t", " ">>}

\* t with the run ws inserted before position j
Insert(t, j, ws) == SubSeq(t, 1, j - 1) \o ws \o SubSeq(t, j, Len(t))

\* C32: when check rejects a text because of an attribute, the text with a
\* run of spaces, tabs or newlines inserted after the opening bracket of an
\* attribute is rejected as well.
C32_WhitespaceDoesNotExempt ==
    (Checked /\ Rejected /\ ~RE_find(san.text).some) =>
        \A j \in Attributes(san.text) : \A ws \in Blanks :
            check(Insert(san.text, j, ws)).status = "Err"

\* #[path] was rejected, and so was the text with a newline before path
W_C32 ==
    /\ Rejected
    /\ san.text = <<"#", "[", "\n">> \o s_path \o <<"]">>
    /\ san.result.found = <<"#", "[", "\n">> \o s_path
    /\ check(<<"#", "[">> \o s_path \o <<"]">>).status = "Err"

\* the keys of the map change only in add_ship and remove_ship, and a team
\* tick that returns has entered every ship of the map whose tick has failed
TickKeepsShips ==
    /\ DOMAIN ships' # DOMAIN ships => Idle /\ pc' = "idle"
    /\ InTick => DOMAIN ships' = DOMAIN ships
    /\ pc' = "done" => \A h \in errored' : Attempts(trace', h) # {}

\* C33 (as stated): TeamController::tick keeps the keys of the ships map,
\* whether the ships' ticks succeed or fail, and a ship whose tick failed is
\* ticked and exploded again on each later tick until it is removed.
C33_Original ==
    [][ /\ TickKeepsShips
        /\ \A h \in errored : ~ShipReturned(h)
      ]_vars

\* C33 amended: TeamController::tick keeps the keys of the ships map,
\* whether the ships' ticks succeed or fail; a ship whose tick failed is
\* ticked again on each later tick until it is removed, and it is exploded
\* by the team in such a tick only when that tick fails as well.
C33_TickKeepsShipMap ==
    [][ /\ TickKeepsShips
        /\ \A h \in DOMAIN ships :
             (ShipReturned(h) /\ sim'.ships[h].exploded /\ ~sim.ships[h].exploded) =>
                \E i \in DOMAIN NewEvents :
                    NewEvents[i].op = "explode" /\ NewEvents[i].h = h
        /\ \A h \in errored : ShipFailed(h) \/ ShipReturned(h) => h \in DOMAIN ships'
      ]_vars

\* in a later team tick the tick of a ship that had failed has returned Ok,
\* and the ship is still in the map
W_C33 ==
    /\ LastReturned
    /\ sim.tick >= 1
    /\ trace[Len(trace)].h \in errored
    /\ trace[Len(trace)].h \in DOMAIN ships

(***************************************************************************)
(* The local state between ticks                                           *)
(***************************************************************************)
\* the slots generate_system_state may set for a ship with these data
GeneratedSlots(data) ==
    {"Class", "PositionX", "PositionY", "VelocityX", "VelocityY", "Heading",
     "AngularVelocity", "MaxForwardAcceleration", "MaxBackwardAcceleration",
     "MaxLateralAcceleration", "MaxAngularAcceleration", "CurrentTick"}
    \cup (IF data.radar.present THEN RadarSlots \cup ContactSlots
          ELSE IF data.target.present THEN ContactSlots \ {"RadarContactFound", "RadarContactClass"}
          ELSE {})
    \cup UNION {LET idxs == radio_indices(i)
                IN  {idxs.channel, idxs.receive, idxs.send}
                    \cup (IF data.radios[i + 1].received.present
                          THEN {idxs.data[d] : d \in 1..4} ELSE {}) :
                i \in 0..(Len(data.radios) - 1)}

\* C34: when a tick succeeds, the local state differs from the state read
\* back from the guest only in AccelerateX, AccelerateY, Torque, the Fire
\* slots that were > 0 and Explode if it was > 0; the next tick writes every
\* slot that outbound generation does not set to guest memory as it was left.
C34_HostModifiesCommandSlotsOnly ==
    [][ \A h \in DOMAIN ships :
          /\ ShipReturned(h) =>
                \A s \in Slots : ships'[h][s] # mem.state[s] =>
                    \/ s \in {"AccelerateX", "AccelerateY", "Torque"}
                    \/ s \in FireSlots \cup {"Explode"} /\ GtZero(get(mem.state, s))
          /\ GuestCalled(h) =>
                \A s \in Slots \ GeneratedSlots(sim.ships[h]) : mem'.state[s] = ships[h][s]
      ]_vars

\* the guest left a NaN in Aim2 in the first tick, and the second tick has
\* handed the state to the guest with the NaN still in Aim2
W_C34 ==
    /\ pc = "guest"
    /\ sim.tick = 1
    /\ writes = 1
    /\ trace[Len(trace)].op = "export_tick_ship"
    /\ mem.state["Aim2"] = NaN
    /\ ships[Head(handles)]["Aim2"] = NaN
    /\ ships[Head(handles)]["Seed"] # Zero

\* C35: the host does not clear ActivateAbility: the slot keeps the guest's
\* value when the state is applied and is handed back to the guest on the
\* next tick, and when the guest returns with the slot as it was handed and
\* the slot names Boost, ShapedCharge, Decoy or Shield, activate_ability is
\* called with that ability again.
C35_AbilityStaysSet ==
    [][ \A h \in DOMAIN ships :
          /\ ShipReturned(h) => ships'[h]["ActivateAbility"] = mem.state["ActivateAbility"]
          /\ GuestCalled(h) => mem'.state["ActivateAbility"] = ships[h]["ActivateAbility"]
          /\ (/\ GuestReturned(h)
              /\ mem.state["ActivateAbility"] = ships[h]["ActivateAbility"]
              /\ \E a \in Activatable :
                    Truncated(ships[h]["ActivateAbility"]) = AbilityCode(a)) =>
                \E i \in DOMAIN NewEvents :
                    NewEvents[i] = Ev("activate_ability", h,
                                      Truncated(ships[h]["ActivateAbility"]), << >>)
      ]_vars

\* the guest stored the code of Decoy in the first tick; in the second tick
\* it ran no instrumented block and stored nothing, and the decoy was
\* activated again
W_C35 ==
    /\ LastReturned
    /\ sim.tick = 1
    /\ writes = 1
    /\ gas = GAS_PER_TICK
    /\ mem.state["ActivateAbility"] = FromInt(AbilityCode("Decoy"))
    /\ \E i \in DOMAIN trace :
          trace[i] = Ev("activate_ability", trace[Len(trace)].h, AbilityCode("Decoy"), << >>)

\* C36 (as stated): whenever emit_debug_lines or emit_drawn_text is called,
\* the batch it is given has at least 1 and at most 128 elements, whatever
\* the length slot holds, a fraction between 0 and 1 included.
C36_Original ==
    \A i \in DOMAIN trace :
        trace[i].op \in {"emit_debug_lines", "emit_drawn_text"} =>
            trace[i].k \in 1..MaxDebugBatch

(***************************************************************************)
(* The frontend's Game component: background simulations                   *)
(***************************************************************************)
\* the step is update handling a response of a background simulation
HandledResponse == game'.received # None

\* the step sends FinishScenario telemetry
FinishScenarioSent ==
    \E i \in DOMAIN game'.out : game'.out[i].op = "Telemetry::FinishScenario"

\* one snapshot for each seed 0..NUM_BACKGROUND_SIMULATIONS - 1, each with
\* the nonce, and nothing else
OnePerSeed(nonce) == SetToBag({[seed |-> s, nonce |-> nonce] : s \in BackgroundSeeds})

\* collections that are not one snapshot per seed: a seed missing, a seed
\* twice, a seed past the last, a snapshot of another nonce, nothing
Incomplete(nonce) ==
    {OnePerSeed(nonce) (-) SetToBag({x}) : x \in BagToSet(OnePerSeed(nonce))}
    \cup {OnePerSeed(nonce) (+) SetToBag({x}) : x \in BagToSet(OnePerSeed(nonce))}
    \cup {(OnePerSeed(nonce) (-) SetToBag({p[1]})) (+) SetToBag({p[2]}) :
            p \in {q \in BagToSet(OnePerSeed(nonce)) \X BagToSet(OnePerSeed(nonce)) :
                      q[1] # q[2]}}
    \cup {OnePerSeed(nonce)
            (+) SetToBag({[seed |-> NUM_BACKGROUND_SIMULATIONS, nonce |-> nonce]})}
    \cup {(OnePerSeed(nonce) (-) SetToBag({x}))
            (+) SetToBag({[seed |-> x.seed, nonce |-> nonce + 1]}) :
            x \in BagToSet(OnePerSeed(nonce))}
    \cup {EmptyBag}

\* summarize_background_simulations on the collections above
SummaryOnlyOfOnePerSeed ==
    \A nonce \in Nonces :
        /\ summarize_background_simulations(OnePerSeed(nonce), nonce).some
        /\ \A snapshots \in Incomplete(nonce) :
              ~summarize_background_simulations(snapshots, nonce).some

\* C37: FinishScenario telemetry is sent only by the handling of a response
\* that adds the snapshot which makes the collected snapshots exactly one
\* for each seed 0..9 with the current background_nonce; the snapshots of a
\* batch only grow, one at a time, until they are cleared, so this happens
\* at most once for a batch; summarize_background_simulations returns a
\* summary for such a collection and None for every other one
C37_FinishScenarioOncePerBatch ==
    [][/\ FinishScenarioSent =>
            /\ HandledResponse
            /\ game'.background_nonce = game.background_nonce
            /\ game'.background_snapshots = OnePerSeed(game'.background_nonce)
            /\ BagCardinality(game.background_snapshots)
                   = NUM_BACKGROUND_SIMULATIONS - 1
            /\ Len(game'.out) = 1
       /\ \/ game'.background_snapshots = game.background_snapshots
          \/ game'.background_snapshots = EmptyBag
          \/ /\ HandledResponse
             /\ game'.background_nonce = game.background_nonce
             /\ \E s \in BackgroundSeeds :
                   game'.background_snapshots = game.background_snapshots
                       (+) SetToBag({[seed |-> s, nonce |-> game.background_nonce]})
             /\ FinishScenarioSent <=>
                   game'.background_snapshots = OnePerSeed(game'.background_nonce)
       /\ summarize_background_simulations(game'.background_snapshots,
                                           game'.background_nonce).some
             <=> game'.background_snapshots = OnePerSeed(game'.background_nonce)
       /\ SummaryOnlyOfOnePerSeed
      ]_vars

\* the last snapshot of a batch has arrived and the telemetry is sent
W_C37 ==
    /\ game.out # << >>
    /\ game.out[1].op = "Telemetry::FinishScenario"
    /\ game.background_snapshots = OnePerSeed(game.background_nonce)
    /\ game.background_agents = NUM_BACKGROUND_SIMULATIONS

\* C38: handling a background snapshot response whose nonce differs from
\* background_nonce changes nothing: nothing is added to
\* background_snapshots, no request and no telemetry is sent, no render is
\* requested; so every collected snapshot carries the current
\* background_nonce, also after DismissOverlay or run have dropped a batch
\* whose responses are still delivered
C38_StaleResponseIgnored ==
    [][/\ (/\ HandledResponse
           /\ game'.received.val.nonce # game.background_nonce) =>
            /\ game'.background_snapshots = game.background_snapshots
            /\ game'.background_agents = game.background_agents
            /\ game'.background_nonce = game.background_nonce
            /\ game'.out = << >>
            /\ game'.render = FALSE
            /\ game'.overlay = game.overlay
            /\ game'.teams = game.teams
            /\ game'.compiler_errors = game.compiler_errors
       /\ \A s \in BagToSet(game'.background_snapshots) :
             s.nonce = game'.background_nonce
      ]_vars

\* a response of a dropped batch has been handled while the next batch,
\* which has another nonce, is collecting its snapshots
W_C38 ==
    /\ game.received # None
    /\ game.received.val.nonce # game.background_nonce
    /\ ~game.received.val.running
    /\ game.background_agents = NUM_BACKGROUND_SIMULATIONS
    /\ game.background_snapshots # EmptyBag

(***************************************************************************)
(* The frontend's Game component: compiling                                *)
(***************************************************************************)
\* the step is update handling the CompileFinished of the oldest job
CompileFinishedStep ==
    /\ game.compiles # << >>
    /\ game'.compiles = Tail(game.compiles)

\* the results that CompileFinished carries
FinishedResults == ResultsOf(Head(game.compiles))

\* the step sends StartSimulation to the SimulationWindow
SimulationStarted ==
    \E i \in DOMAIN game'.out : game'.out[i].op = "StartSimulation"

\* the error texts of the results, in the order of the teams, with a line
\* feed between two of them
JoinedErrors(results) ==
    LET failed == {i \in DOMAIN results : ~results[i].ok}
        first == CHOOSE i \in failed : \A j \in failed : i <= j
        last == CHOOSE i \in failed : \A j \in failed : i >= j
    IN  IF first = last THEN results[first].error
        ELSE results[first].error \o <<"\n">> \o results[last].error

\* C39: handling CompileFinished starts the simulation exactly if every
\* result is Ok; with an error no simulation is started and compiler_errors
\* is the joined error texts; a team whose result is an error has
\* running_compiled_code Code::None, any other team has the new code; the
\* overlay is cleared if it is Compiling and is left alone otherwise
C39_CompileFinishedRunsIffAllOk ==
    [][CompileFinishedStep =>
        /\ SimulationStarted <=> \A i \in DOMAIN FinishedResults : FinishedResults[i].ok
        /\ (\E i \in DOMAIN FinishedResults : ~FinishedResults[i].ok) =>
              /\ game'.compiler_errors = Some(JoinedErrors(FinishedResults))
              /\ game'.out = << >>
        /\ SimulationStarted =>
              /\ game'.compiler_errors = None
              /\ game'.out[Len(game'.out)] =
                    Sent("StartSimulation",
                         [i \in DOMAIN FinishedResults |-> FinishedResults[i].code])
        /\ DOMAIN game'.teams = DOMAIN FinishedResults
        /\ \A i \in DOMAIN FinishedResults :
              game'.teams[i].running_compiled_code =
                  IF FinishedResults[i].ok THEN FinishedResults[i].code ELSE Code_None
        /\ game'.overlay = IF game.overlay = "Compiling" THEN "None" ELSE game.overlay
        /\ game'.render
      ]_vars

\* CompileFinished has been handled with an error for the player and a new
\* code for the enemy, while the Feedback overlay was shown
W_C39 ==
    /\ game.compiles = << >>
    /\ game.compiler_errors = Some(<<"error: a">>)
    /\ game.teams[1].running_compiled_code = Code_None
    /\ game.teams[2].running_compiled_code.tag = "Wasm"
    /\ game.overlay = "Feedback"
    /\ game.out = << >>

\* the cache as CompileFinished leaves it: emptied if it held more than
\* CompilationCacheLimit entries, then the results that are Ok entered one
\* after the other under the running source code of their team
RECURSIVE Entered(_, _, _, _)
Entered(cache, teams, results, i) ==
    IF i > Len(results) THEN cache
    ELSE Entered(IF results[i].ok
                 THEN [k \in (DOMAIN cache) \cup {teams[i].running_source_code} |->
                          IF k = teams[i].running_source_code THEN results[i].code
                          ELSE cache[k]]
                 ELSE cache,
                 teams, results, i + 1)

\* C40: the compilation cache never holds more than 10 entries plus one for
\* each team; CompileFinished empties it if it holds more than 10 entries
\* and then enters the results that are Ok, and only those, under the
\* running source code of their team; no other message changes it
C40_CompilationCacheBounded ==
    [][/\ Cardinality(DOMAIN game'.compilation_cache)
             <= CompilationCacheLimit + Len(game'.teams)
       /\ CompileFinishedStep =>
             /\ game'.compilation_cache =
                   Entered(IF Cardinality(DOMAIN game.compilation_cache)
                                > CompilationCacheLimit
                           THEN << >> ELSE game.compilation_cache,
                           game.teams, FinishedResults, 1)
             /\ \A k \in DOMAIN game'.compilation_cache :
                   \/ /\ Cardinality(DOMAIN game.compilation_cache)
                            <= CompilationCacheLimit
                      /\ k \in DOMAIN game.compilation_cache
                      /\ game'.compilation_cache[k] = game.compilation_cache[k]
                   \/ \E i \in DOMAIN FinishedResults :
                         /\ FinishedResults[i].ok
                         /\ k = game.teams[i].running_source_code
                         /\ game'.compilation_cache[k] = FinishedResults[i].code
       /\ ~CompileFinishedStep => game'.compilation_cache = game.compilation_cache
      ]_vars

\* the cache holds 10 entries and one for each of the two teams
W_C40 ==
    /\ Cardinality(DOMAIN game.compilation_cache) = CompilationCacheLimit + 2
    /\ Len(game.teams) = 2
    /\ game.compiles = << >>

====
